---- MODULE Spec2Model ----
(***************************************************************************)
(* Checkout core of vivare-site: the checkout state machine                *)
(* (lib/state-machine.ts, models/checkout.ts), the orchestrator            *)
(* (services/checkout-service.ts), the idempotency layer                   *)
(* (middleware/idempotency.ts) and the HTTP routes that drive them         *)
(* (routes/checkout.ts, routes/webhooks.ts, routes/jobs.ts).               *)
(*                                                                         *)
(* One checkout document is followed.  Request handlers run concurrently   *)
(* in the handler slots of Procs; every await on the document store, the   *)
(* PMS (Stays) or the PSP (Stripe) is a point where another handler may    *)
(* run.  A Firestore transaction whose body has no outside effect          *)
(* (transitionState) is one atomic step; createHold, whose body calls the  *)
(* PMS, is read / PMS call / commit, and the commit re-runs the body when  *)
(* the document it read has changed.  External calls (PMS, PSP) succeed or *)
(* fail.                                                                   *)
(***************************************************************************)
EXTENDS Integers, Sequences, FiniteSets, TLC

\* ------------------------------------------------------------ bounds
\* Handler slots that run concurrently.
Procs == {"h1", "h2"}
\* Number of HTTP requests (and direct transitionState calls) in one behaviour.
MaxRequests == 4
\* Idempotency-Key header values a client sends; NoKey is a missing header.
Keys == {"K1"}
NoKey == "none"
\* Guest payloads accepted by updateGuestSchema.
Guests == {"g1"}
NoGuest == "none"
\* Totals the PMS price calculation answers.  A total is a JavaScript number;
\* it is written here in thousandths (10504 is 10.504).
QuoteTotals == {10504}

\* ------------------------------------------------------------ models/checkout.ts
CheckoutState ==
    {"INITIATED", "HOLD_CREATED", "PAYMENT_CREATED", "PAID",
     "BOOKED", "CANCELED", "EXPIRED", "FAILED"}

VALID_TRANSITIONS ==
    [s \in CheckoutState |->
        CASE s = "INITIATED"       -> {"HOLD_CREATED", "CANCELED", "FAILED"}
          [] s = "HOLD_CREATED"    -> {"PAYMENT_CREATED", "EXPIRED", "CANCELED", "FAILED"}
          [] s = "PAYMENT_CREATED" -> {"PAID", "EXPIRED", "CANCELED", "FAILED"}
          [] s = "PAID"            -> {"BOOKED", "FAILED"}
          [] s = "BOOKED"          -> {"CANCELED"}
          [] OTHER                 -> {}]

TERMINAL_STATES == {"BOOKED", "CANCELED", "EXPIRED", "FAILED"}

EXPIRABLE_STATES == <<"HOLD_CREATED", "PAYMENT_CREATED">>

isValidTransition_any(from, to) == TRUE

isValidTransition(from, to) == to \in VALID_TRANSITIONS[from]

isTerminal(state) == state \in TERMINAL_STATES

\* ------------------------------------------------------------ documents
\* A missing document.
NoDoc == [exists |-> FALSE]

\* An id that is not set (staysReservationId, stripePaymentIntentId,
\* staysBookingCode, holdExpiresAt are optional fields of Checkout).
Unset == 0

\* The entry names the two states the wrong way round.
StateTransition_reversed(from, to, actor) == [from |-> to, to |-> from, actor |-> actor]

\* One entry of stateHistory.
StateTransition(from, to, actor) == [from |-> from, to |-> to, actor |-> actor]

\* The locked quote for a price response of this total (no fees or taxes).
createLockedQuote(total) ==
    [total |-> total,
     currency |-> "BRL",
     breakdown |-> [subtotal |-> total, cleaningFee |-> 0, serviceFee |-> 0,
                    taxes |-> 0],
     hash |-> "sha256",
     expiresAt |-> "quote_ttl"]

\* The document initializeCheckout writes for a price response of this total.
NewCheckout(total) ==
    [exists |-> TRUE,
     quote |-> createLockedQuote(total),
     state |-> "INITIATED",
     stateHistory |-> <<StateTransition("INITIATED", "INITIATED", "user")>>,
     guest |-> NoGuest,
     staysReservationId |-> Unset,
     staysBookingCode |-> Unset,
     stripePaymentIntentId |-> Unset,
     holdExpiresAt |-> Unset]

\* ------------------------------------------------------------ lib/state-machine.ts
\* The body of transitionState's transaction on the document it reads:
\* the outcome and the document it leaves.  `updates` is a record of the
\* additional fields to write.
transitionState_unchecked(doc, targetState, actor, updates) ==
    IF ~doc.exists THEN [outcome |-> "not_found", doc |-> doc]
    ELSE [outcome |-> "ok",
          doc |-> [(updates @@ doc) EXCEPT
                      !.state = targetState,
                      !.stateHistory =
                          Append(doc.stateHistory,
                                 StateTransition(doc.state, targetState, actor))]]

\* A request for the state the checkout is already in is refused.
transitionState_strict(doc, targetState, actor, updates) ==
    IF ~doc.exists THEN [outcome |-> "not_found", doc |-> doc]
    ELSE IF ~isValidTransition(doc.state, targetState)
        THEN [outcome |-> "invalid", doc |-> doc]
    ELSE IF isTerminal(doc.state)
        THEN [outcome |-> "terminal", doc |-> doc]
    ELSE [outcome |-> "ok",
          doc |-> [(updates @@ doc) EXCEPT
                      !.state = targetState,
                      !.stateHistory =
                          Append(doc.stateHistory,
                                 StateTransition(doc.state, targetState, actor))]]

\* The state is written without its history entry.
transitionState_noHistory(doc, targetState, actor, updates) ==
    IF ~doc.exists THEN [outcome |-> "not_found", doc |-> doc]
    ELSE IF doc.state = targetState THEN [outcome |-> "noop", doc |-> doc]
    ELSE IF ~isValidTransition(doc.state, targetState)
        THEN [outcome |-> "invalid", doc |-> doc]
    ELSE IF isTerminal(doc.state)
        THEN [outcome |-> "terminal", doc |-> doc]
    ELSE [outcome |-> "ok",
          doc |-> [(updates @@ doc) EXCEPT !.state = targetState]]

transitionState(doc, targetState, actor, updates) ==
    IF ~doc.exists THEN [outcome |-> "not_found", doc |-> doc]
    ELSE IF doc.state = targetState THEN [outcome |-> "noop", doc |-> doc]
    ELSE IF ~isValidTransition(doc.state, targetState)
        THEN [outcome |-> "invalid", doc |-> doc]
    ELSE IF isTerminal(doc.state)
        THEN [outcome |-> "terminal", doc |-> doc]
    ELSE [outcome |-> "ok",
          doc |-> [(updates @@ doc) EXCEPT
                      !.state = targetState,
                      !.stateHistory =
                          Append(doc.stateHistory,
                                 StateTransition(doc.state, targetState, actor))]]

\* transitionState returns a checkout (ok, noop) or throws.
Returned(r) == r.outcome \in {"ok", "noop"}
\* The error it throws is a StateMachineError (what tryTransitionState catches).
IsStateMachineError(r) == r.outcome \in {"invalid", "terminal", "cannot_create_hold"}

\* transitionState called without options.updates.
NoUpdates == <<>>

\* transitionState on a document that carries updatedAt, at time now
\* (Timestamp.now()): the update also writes updatedAt.
transitionStateAt(doc, targetState, actor, updates, now) ==
    LET r == transitionState(doc, targetState, actor, updates) IN
        IF r.outcome = "ok"
           THEN [outcome |-> "ok", doc |-> [r.doc EXCEPT !.updatedAt = now]]
           ELSE r

\* What tryTransitionState returns when it does not return a checkout.
Null == [null |-> TRUE]

\* tryTransitionState: the document it leaves, and what it returns or throws.
tryTransitionState(doc, targetState, actor, updates, now) ==
    LET r == transitionStateAt(doc, targetState, actor, updates, now) IN
        IF Returned(r) THEN [doc |-> r.doc, kind |-> "returned", value |-> r.doc]
        ELSE IF IsStateMachineError(r)
            THEN [doc |-> r.doc, kind |-> "returned", value |-> Null]
        ELSE [doc |-> r.doc, kind |-> "thrown", value |-> r.outcome]

\* ------------------------------------------------------------ external systems
\* PSP events delivered to POST /webhooks/stripe: one event id per type.
Events == {"evt_succeeded", "evt_failed", "evt_refunded"}

EventType(e) ==
    CASE e = "evt_succeeded" -> "payment_intent.succeeded"
      [] e = "evt_failed"    -> "payment_intent.payment_failed"
      [] e = "evt_refunded"  -> "charge.refunded"

\* Math.round of a number given in thousandths (a non-negative one).
MathRound(x) == (x + 500) \div 1000

\* amountInCentavos = Math.round(checkout.quote.total * 100).
AmountInCentavos(total) == MathRound(total * 100)

\* paymentIntent.client_secret of PaymentIntent number i.
ClientSecret(i) == <<"client_secret", i>>

\* ------------------------------------------------------------ responses
Endpoints == {"hold", "payment-intent"}

\* A missing idempotency record.
NoRecord == [exists |-> FALSE]

NoBody == [kind |-> "none"]

\* errorHandler: an error that is no ApiError is answered 500 INTERNAL_ERROR
\* with err.message.
ErrorBody(message) == [kind |-> "error", code |-> "INTERNAL_ERROR", error |-> message]

\* res.json of POST /:checkoutId/hold.
HoldBody(doc) ==
    [kind |-> "hold", state |-> doc.state,
     staysReservationId |-> doc.staysReservationId,
     holdExpiresAt |-> doc.holdExpiresAt]

\* res.json of POST /:checkoutId/payment-intent.
PaymentIntentBody(clientSecret, state) ==
    [kind |-> "payment-intent", clientSecret |-> clientSecret, state |-> state]

\* res.json of POST /:checkoutId/cancel.
CancelBody(state) == [kind |-> "cancel", state |-> state, canceled |-> TRUE]

\* res.json of POST /webhooks/stripe.
ReceivedBody(status) == [kind |-> "received", status |-> status]

\* res.json of POST /jobs/expire-holds.
SweepBody(expiredCount, errorCount) ==
    [kind |-> "expire-holds", expiredCount |-> expiredCount, errorCount |-> errorCount]

\* ------------------------------------------------------------ state
VARIABLES
    checkout,        \* the document checkouts/{checkoutId}
    idempotencyKeys, \* collection idempotency_keys: (endpoint, key) -> record
    webhookEvents,   \* collection webhook_events: the event ids recorded
    pastHoldExpiry,  \* the clock has passed the checkout's holdExpiresAt
    pmsReservations, \* PMS: the type of each reservation created, by id
    pmsCalls,        \* PMS: writes performed (updateReservation, registerPayment)
    pspIntents,      \* PSP: number of PaymentIntents created
    requests,        \* requests started so far
    proc,            \* per handler slot: the request it serves and its locals
    checkouts,       \* the other documents of collection checkouts, by id
    canceled,        \* PMS: the checkouts whose reservation is canceled
    sweep,           \* the expire-holds job over `checkouts`: its locals
    machine,         \* lib/state-machine.ts called directly on one document
    call             \* one call of a function followed alone: arguments, locals, result

\* The one checkout followed through the routes, and what serves it.
routes == <<checkout, idempotencyKeys, webhookEvents, pastHoldExpiry,
            pmsReservations, pmsCalls, pspIntents, requests, proc>>

\* The collection the sweeper works through.
fleet == <<checkouts, canceled, sweep>>

vars == <<routes, fleet, machine, call>>

store == <<checkout, idempotencyKeys, webhookEvents>>
pms == <<pmsReservations, pmsCalls>>

\* A slot serving nothing.  A slot at pc "done" holds the response being
\* sent, with what its request did (read: the checkout state its last
\* transitionState call found).
Idle ==
    [pc |-> "idle", op |-> "none", key |-> NoKey, event |-> "none",
     target |-> "none", snap |-> NoDoc, ext |-> Unset,
     read |-> "none", amount |-> 0, idx |-> 0, expiredCount |-> 0,
     errorCount |-> 0,
     outcome |-> "none", marked |-> FALSE, cached |-> FALSE,
     status |-> 0, body |-> NoBody]

\* No direct call of the state machine has been made.
NoCall == [fn |-> "none"]
NoMachine == [doc |-> NoDoc, now |-> 0, call |-> NoCall, result |-> NoCall]

\* The state of the checkout as a request finds it.
StateSeen == IF checkout.exists THEN checkout.state ELSE "none"

Init ==
    /\ checkout = NoDoc
    /\ idempotencyKeys = [ek \in Endpoints \X Keys |-> NoRecord]
    /\ webhookEvents = {}
    /\ pastHoldExpiry = FALSE
    /\ pmsReservations = <<>>
    /\ pmsCalls = [updateReservation |-> 0, registerPayment |-> 0]
    /\ pspIntents = 0
    /\ requests = 0
    /\ proc = [p \in Procs |-> Idle]
    /\ checkouts = <<>>
    /\ canceled = {}
    /\ sweep = [pc |-> "idle", idx |-> 0, batch |-> <<>>, found |-> 0,
                expiredCount |-> 0, errorCount |-> 0]
    /\ machine = NoMachine
    /\ call = NoCall

\* No response is on its way out: a response is handed to the caller
\* (Return) before any other step is taken.
Quiet == \A p \in Procs : proc[p].pc # "done"

\* A request is accepted by an idle slot (the slots are interchangeable: the
\* second one serves a request only while the first is busy).
CanStart(p) ==
    /\ Quiet
    /\ proc[p].pc = "idle"
    /\ requests < MaxRequests
    /\ p = "h1" \/ proc["h1"].pc # "idle"

\* Slot p is at step pc of its request.
At(p, pc) == Quiet /\ proc[p].pc = pc

\* The slot record of a request that ends with this response.
Answer(rec, status, body, outcome) ==
    [rec EXCEPT !.pc = "done", !.status = status, !.body = body,
                !.outcome = outcome]

\* The request of slot p ends with this response.
Reply(p, status, body, outcome) ==
    proc' = [proc EXCEPT ![p] = Answer(proc[p], status, body, outcome)]

\* An error reaches errorHandler (an Error that is no ApiError: 500).
Throw(p, message) == Reply(p, 500, ErrorBody(message), message)

\* ------------------------------------------------------------ middleware/idempotency.ts
\* The response was sent through the res.json the middleware patched.
Patched(rec) == rec.op \in Endpoints /\ rec.key # NoKey /\ ~rec.cached

\* The caller has its response.  After the patched res.json the set of the
\* idempotency record is still on its way (it is issued, not awaited).
Return(p) ==
    /\ proc[p].pc = "done"
    /\ proc' = [proc EXCEPT ![p] =
                   IF Patched(proc[p])
                      THEN [Idle EXCEPT !.pc = "idem_set", !.op = proc[p].op,
                                        !.key = proc[p].key,
                                        !.status = proc[p].status,
                                        !.body = proc[p].body]
                      ELSE Idle]
    /\ UNCHANGED <<store, pastHoldExpiry, pms, pspIntents, requests>>
    /\ UNCHANGED <<fleet, machine, call>>

\* docRef.set(record) issued by the patched res.json lands.
StoreIdempotencyRecord(p) ==
    /\ At(p, "idem_set")
    /\ idempotencyKeys' =
           [idempotencyKeys EXCEPT ![<<proc[p].op, proc[p].key>>] =
               [exists |-> TRUE, key |-> proc[p].key, endpoint |-> proc[p].op,
                responseStatus |-> proc[p].status,
                responseBody |-> proc[p].body,
                expired |-> FALSE]]
    /\ proc' = [proc EXCEPT ![p] = Idle]
    /\ UNCHANGED <<checkout, webhookEvents, pastHoldExpiry, pms, pspIntents,
                   requests>>
    /\ UNCHANGED <<fleet, machine, call>>

\* Time passes beyond the expiresAt of a record (ttlHours after it was made:
\* hours, while a request is served within seconds, so no request is in
\* flight across it).
IdempotencyTtlElapses(ek) ==
    /\ \A p \in Procs : proc[p].pc = "idle"
    /\ idempotencyKeys[ek].exists
    /\ ~idempotencyKeys[ek].expired
    /\ idempotencyKeys' = [idempotencyKeys EXCEPT ![ek].expired = TRUE]
    /\ UNCHANGED <<checkout, webhookEvents, pastHoldExpiry, pms, pspIntents,
                   requests, proc>>
    /\ UNCHANGED <<fleet, machine, call>>

\* The record found is served whatever its expiresAt.
IdempotencyMiddleware_noExpiry(p, endpoint, k, firstPc) ==
    /\ CanStart(p)
    /\ requests' = requests + 1
    /\ LET req == [Idle EXCEPT !.op = endpoint, !.key = k]
           record == idempotencyKeys[<<endpoint, k>>]
       IN  IF k = NoKey THEN
              /\ proc' = [proc EXCEPT ![p] =
                             Answer(req, 400,
                                    [kind |-> "error",
                                     code |-> "IDEMPOTENCY_KEY_REQUIRED",
                                     error |-> "Missing Idempotency-Key header"],
                                    "IDEMPOTENCY_KEY_REQUIRED")]
           ELSE IF record.exists THEN
              /\ proc' = [proc EXCEPT ![p] =
                             Answer([req EXCEPT !.cached = TRUE],
                                    record.responseStatus, record.responseBody,
                                    "cached")]
           ELSE
              /\ proc' = [proc EXCEPT ![p] = [req EXCEPT !.pc = firstPc]]
    /\ UNCHANGED <<store, pastHoldExpiry, pms, pspIntents>>
    /\ UNCHANGED <<fleet, machine, call>>

\* idempotencyMiddleware({required: true}) in front of `endpoint`: a request
\* with Idempotency-Key k arrives and the middleware reads the record.  An
\* expired record is deleted (IdempotencyDelete) before the handler runs.
IdempotencyMiddleware(p, endpoint, k, firstPc) ==
    /\ CanStart(p)
    /\ requests' = requests + 1
    /\ LET req == [Idle EXCEPT !.op = endpoint, !.key = k]
           record == idempotencyKeys[<<endpoint, k>>]
       IN  IF k = NoKey THEN
              /\ proc' = [proc EXCEPT ![p] =
                             Answer(req, 400,
                                    [kind |-> "error",
                                     code |-> "IDEMPOTENCY_KEY_REQUIRED",
                                     error |-> "Missing Idempotency-Key header"],
                                    "IDEMPOTENCY_KEY_REQUIRED")]
           ELSE IF record.exists /\ record.expired THEN
              /\ proc' = [proc EXCEPT ![p] = [req EXCEPT !.pc = "idem_delete"]]
           ELSE IF record.exists THEN
              /\ proc' = [proc EXCEPT ![p] =
                             Answer([req EXCEPT !.cached = TRUE],
                                    record.responseStatus, record.responseBody,
                                    "cached")]
           ELSE
              /\ proc' = [proc EXCEPT ![p] = [req EXCEPT !.pc = firstPc]]
    /\ UNCHANGED <<store, pastHoldExpiry, pms, pspIntents>>
    /\ UNCHANGED <<fleet, machine, call>>

\* The first step of the handler behind the middleware.
FirstPc(endpoint) == IF endpoint = "hold" THEN "hold_read" ELSE "pi_read"

\* docRef.delete() of the expired record, then next().
IdempotencyDelete(p) ==
    /\ At(p, "idem_delete")
    /\ idempotencyKeys' =
           [idempotencyKeys EXCEPT ![<<proc[p].op, proc[p].key>>] = NoRecord]
    /\ proc' = [proc EXCEPT ![p].pc = FirstPc(proc[p].op)]
    /\ UNCHANGED <<checkout, webhookEvents, pastHoldExpiry, pms, pspIntents,
                   requests>>
    /\ UNCHANGED <<fleet, machine, call>>

\* ------------------------------------------------------------ checkout-service.ts
\* initializeCheckout: writes the new document.
InitializeCheckout ==
    /\ Quiet
    /\ checkout = NoDoc
    /\ \E total \in QuoteTotals : checkout' = NewCheckout(total)
    /\ UNCHANGED <<idempotencyKeys, webhookEvents, pastHoldExpiry, pms,
                   pspIntents, requests, proc>>
    /\ UNCHANGED <<fleet, machine, call>>

\* updateGuestInfo: docRef.update({guest, updatedAt}) outside any transaction.
UpdateGuestInfo(g) ==
    /\ Quiet
    /\ checkout.exists
    /\ checkout' = [checkout EXCEPT !.guest = g]
    /\ UNCHANGED <<idempotencyKeys, webhookEvents, pastHoldExpiry, pms,
                   pspIntents, requests, proc>>
    /\ UNCHANGED <<fleet, machine, call>>

\* Time passes beyond holdExpiresAt.
HoldTtlElapses ==
    /\ Quiet
    /\ checkout.exists
    /\ checkout.holdExpiresAt # Unset
    /\ ~pastHoldExpiry
    /\ pastHoldExpiry' = TRUE
    /\ UNCHANGED <<store, pms, pspIntents, requests, proc>>
    /\ UNCHANGED <<fleet, machine, call>>

\* ------------------------------------------------------------ POST /checkout/:id/hold
PostHold(p, k) == IdempotencyMiddleware(p, "hold", k, "hold_read")

\* createHold goes to the PMS whatever the state and the guest are.
HoldRead_unguarded(p) ==
    /\ At(p, "hold_read")
    /\ IF ~checkout.exists THEN Throw(p, "not_found")
       ELSE IF checkout.state = "HOLD_CREATED" \/ checkout.staysReservationId # Unset
          THEN Reply(p, 200, HoldBody(checkout), "existing")
       ELSE proc' = [proc EXCEPT ![p].pc = "hold_pms", ![p].snap = checkout]
    /\ UNCHANGED <<store, pastHoldExpiry, pms, pspIntents, requests>>
    /\ UNCHANGED <<fleet, machine, call>>

\* createHold, transaction body: transaction.get and the checks on it.
HoldRead(p) ==
    /\ At(p, "hold_read")
    /\ IF ~checkout.exists THEN Throw(p, "not_found")
       ELSE IF checkout.state = "HOLD_CREATED" \/ checkout.staysReservationId # Unset
          THEN Reply(p, 200, HoldBody(checkout), "existing")
       ELSE IF checkout.state # "INITIATED" THEN Throw(p, "cannot_create_hold")
       ELSE IF checkout.guest = NoGuest THEN Throw(p, "guest_required")
       ELSE proc' = [proc EXCEPT ![p].pc = "hold_pms", ![p].snap = checkout]
    /\ UNCHANGED <<store, pastHoldExpiry, pms, pspIntents, requests>>
    /\ UNCHANGED <<fleet, machine, call>>

\* createHold, transaction body: staysClient.createReservation (no retry).
HoldPmsCreate(p) ==
    /\ At(p, "hold_pms")
    /\ \/ /\ pmsReservations' = Append(pmsReservations, "reserved")
          /\ proc' = [proc EXCEPT ![p].pc = "hold_commit",
                                  ![p].ext = Len(pmsReservations) + 1]
       \/ /\ Throw(p, "pms_error")
          /\ UNCHANGED pmsReservations
    /\ UNCHANGED <<store, pastHoldExpiry, pmsCalls, pspIntents, requests>>
    /\ UNCHANGED <<fleet, machine, call>>

\* createHold stores the reservation and leaves the state for later.
HoldUpdates_idOnly(doc, reservationId) ==
    [doc EXCEPT
        !.staysReservationId = reservationId,
        !.holdExpiresAt = 1]

\* createHold stores the price it sent to the PMS back into the quote.
HoldUpdates_requoted(doc, reservationId) ==
    [doc EXCEPT
        !.state = "HOLD_CREATED",
        !.staysReservationId = reservationId,
        !.holdExpiresAt = 1,
        !.quote.total = AmountInCentavos(@),
        !.stateHistory =
            Append(doc.stateHistory,
                   StateTransition(doc.state, "HOLD_CREATED", "system"))]

\* The document createHold writes with transaction.update.
HoldUpdates(doc, reservationId) ==
    [doc EXCEPT
        !.state = "HOLD_CREATED",
        !.staysReservationId = reservationId,
        !.holdExpiresAt = 1,
        !.stateHistory = Append(doc.stateHistory,
                                StateTransition(doc.state, "HOLD_CREATED", "system"))]

\* The write lands without the transaction's check of what it read.
HoldCommit_blind(p) ==
    /\ At(p, "hold_commit")
    /\ checkout' = HoldUpdates(proc[p].snap, proc[p].ext)
    /\ Reply(p, 200, HoldBody(checkout'), "created")
    /\ UNCHANGED <<idempotencyKeys, webhookEvents, pastHoldExpiry, pms,
                   pspIntents, requests>>
    /\ UNCHANGED <<fleet, machine, call>>

\* createHold, commit of the transaction: the update is applied when the
\* document is still the one read; otherwise the body runs again.
HoldCommit(p) ==
    /\ At(p, "hold_commit")
    /\ IF checkout = proc[p].snap THEN
          /\ checkout' = HoldUpdates(proc[p].snap, proc[p].ext)
          /\ Reply(p, 200, HoldBody(checkout'), "created")
       ELSE
          /\ proc' = [proc EXCEPT ![p].pc = "hold_read", ![p].snap = NoDoc,
                                  ![p].ext = Unset]
          /\ UNCHANGED checkout
    /\ UNCHANGED <<idempotencyKeys, webhookEvents, pastHoldExpiry, pms,
                   pspIntents, requests>>
    /\ UNCHANGED <<fleet, machine, call>>

\* ------------------------------------------------------------ POST /checkout/:id/payment-intent
PostPaymentIntent(p, k) ==
    IdempotencyMiddleware(p, "payment-intent", k, "pi_read")

\* createPaymentIntent: getCheckout and the checks on it.
PaymentIntentRead(p) ==
    /\ At(p, "pi_read")
    /\ IF ~checkout.exists THEN Throw(p, "not_found")
       ELSE IF checkout.stripePaymentIntentId # Unset
          THEN proc' = [proc EXCEPT ![p].pc = "pi_retrieve", ![p].snap = checkout]
       ELSE IF checkout.state # "HOLD_CREATED"
          THEN proc' = [proc EXCEPT ![p] =
                   Answer([proc[p] EXCEPT !.read = StateSeen], 500,
                          ErrorBody("invalid_state"), "invalid_state")]
       ELSE proc' = [proc EXCEPT ![p].pc = "pi_create", ![p].snap = checkout]
    /\ UNCHANGED <<store, pastHoldExpiry, pms, pspIntents, requests>>
    /\ UNCHANGED <<fleet, machine, call>>

\* createPaymentIntent: stripe.paymentIntents.retrieve of the stored intent.
PaymentIntentRetrieve(p) ==
    /\ At(p, "pi_retrieve")
    /\ \/ Reply(p, 200,
                PaymentIntentBody(ClientSecret(proc[p].snap.stripePaymentIntentId),
                                  proc[p].snap.state),
                "retrieved")
       \/ Throw(p, "psp_error")
    /\ UNCHANGED <<store, pastHoldExpiry, pms, pspIntents, requests>>
    /\ UNCHANGED <<fleet, machine, call>>

\* createPaymentIntent: stripe.paymentIntents.create.
PaymentIntentCreate(p) ==
    /\ At(p, "pi_create")
    /\ \/ /\ pspIntents' = pspIntents + 1
          /\ proc' = [proc EXCEPT
                          ![p].pc = "pi_transition",
                          ![p].ext = pspIntents + 1,
                          ![p].amount = AmountInCentavos(proc[p].snap.quote.total)]
       \/ /\ Throw(p, "psp_error")
          /\ UNCHANGED pspIntents
    /\ UNCHANGED <<store, pastHoldExpiry, pms, requests>>
    /\ UNCHANGED <<fleet, machine, call>>

\* createPaymentIntent: transitionState(PAYMENT_CREATED, {stripePaymentIntentId}).
PaymentIntentTransition(p) ==
    /\ At(p, "pi_transition")
    /\ LET r == transitionState(checkout, "PAYMENT_CREATED", "system",
                                [stripePaymentIntentId |-> proc[p].ext]) IN
        /\ checkout' = r.doc
        /\ IF Returned(r)
              THEN Reply(p, 200,
                         PaymentIntentBody(ClientSecret(proc[p].ext),
                                           "PAYMENT_CREATED"),
                         "created")
              ELSE Throw(p, r.outcome)
    /\ UNCHANGED <<idempotencyKeys, webhookEvents, pastHoldExpiry, pms,
                   pspIntents, requests>>
    /\ UNCHANGED <<fleet, machine, call>>

\* ------------------------------------------------------------ POST /webhooks/stripe
\* The catch of the route: 500, the event is not marked.
WebhookCatch(p, read, message) ==
    proc' = [proc EXCEPT ![p] =
                Answer([proc[p] EXCEPT !.read = read], 500,
                       ErrorBody("Webhook processing failed"), message)]

\* checkWebhookIdempotency answers that every delivery is new.
checkWebhookIdempotency_never(events, e) == FALSE

\* checkWebhookIdempotency: isProcessed is docSnap.exists on webhook_events.
checkWebhookIdempotency(events, e) == e \in events

\* Where the switch on event.type sends the event.
Dispatch(e) ==
    CASE EventType(e) = "payment_intent.succeeded"      -> "wh_paid"
      [] EventType(e) = "payment_intent.payment_failed" -> "wh_failed"
      [] OTHER                                          -> "wh_mark"

\* The event is recorded as processed before it is handled.
PostWebhook_markFirst(p, e) ==
    /\ CanStart(p)
    /\ pspIntents > 0
    /\ requests' = requests + 1
    /\ LET req == [Idle EXCEPT !.op = "webhook", !.event = e]
       IN  IF checkWebhookIdempotency(webhookEvents, e)
              THEN /\ proc' = [proc EXCEPT ![p] =
                                  Answer(req, 200, ReceivedBody("already_processed"),
                                         "already_processed")]
                   /\ UNCHANGED webhookEvents
              ELSE /\ proc' = [proc EXCEPT ![p] = [req EXCEPT !.pc = Dispatch(e)]]
                   /\ webhookEvents' = webhookEvents \cup {e}
    /\ UNCHANGED <<checkout, idempotencyKeys, pastHoldExpiry, pms, pspIntents>>
    /\ UNCHANGED <<fleet, machine, call>>

\* A signed event e arrives: checkWebhookIdempotency reads webhook_events,
\* then the event is dispatched.  Events exist once a PaymentIntent does.
PostWebhook(p, e) ==
    /\ CanStart(p)
    /\ pspIntents > 0
    /\ requests' = requests + 1
    /\ LET req == [Idle EXCEPT !.op = "webhook", !.event = e]
       IN  IF checkWebhookIdempotency(webhookEvents, e)
              THEN proc' = [proc EXCEPT ![p] =
                               Answer(req, 200, ReceivedBody("already_processed"),
                                      "already_processed")]
              ELSE proc' = [proc EXCEPT ![p] = [req EXCEPT !.pc = Dispatch(e)]]
    /\ UNCHANGED <<store, pastHoldExpiry, pms, pspIntents>>
    /\ UNCHANGED <<fleet, machine, call>>

\* handlePaymentSucceeded: transitionState(PAID), then the BOOKED check on
\* the checkout it returns.
SucceededPaid(p) ==
    /\ At(p, "wh_paid")
    /\ LET r == transitionState(checkout, "PAID", "webhook", NoUpdates) IN
        /\ checkout' = r.doc
        /\ IF ~Returned(r) THEN WebhookCatch(p, StateSeen, r.outcome)
           ELSE proc' = [proc EXCEPT
                            ![p].pc = IF r.doc.state = "BOOKED"
                                         THEN "wh_mark" ELSE "wh_update",
                            ![p].read = StateSeen,
                            ![p].snap = r.doc]
    /\ UNCHANGED <<idempotencyKeys, webhookEvents, pastHoldExpiry, pms,
                   pspIntents, requests>>
    /\ UNCHANGED <<fleet, machine, call>>

\* handlePaymentSucceeded: staysClient.updateReservation({type: 'booked'}).
\* The PMS knows only the reservations it created.
SucceededUpdateReservation(p) ==
    /\ At(p, "wh_update")
    /\ \/ /\ proc[p].snap.staysReservationId \in DOMAIN pmsReservations
          /\ pmsReservations' =
                 [pmsReservations EXCEPT ![proc[p].snap.staysReservationId] = "booked"]
          /\ pmsCalls' = [pmsCalls EXCEPT !.updateReservation = @ + 1]
          /\ proc' = [proc EXCEPT ![p].pc = "wh_register"]
       \/ /\ WebhookCatch(p, proc[p].read, "pms_error")
          /\ UNCHANGED pms
    /\ UNCHANGED <<store, pastHoldExpiry, pspIntents, requests>>
    /\ UNCHANGED <<fleet, machine, call>>

\* handlePaymentSucceeded: staysClient.registerPayment.
SucceededRegisterPayment(p) ==
    /\ At(p, "wh_register")
    /\ \/ /\ pmsCalls' = [pmsCalls EXCEPT !.registerPayment = @ + 1]
          /\ proc' = [proc EXCEPT ![p].pc = "wh_get"]
       \/ /\ WebhookCatch(p, proc[p].read, "pms_error")
          /\ UNCHANGED pmsCalls
    /\ UNCHANGED <<store, pastHoldExpiry, pmsReservations, pspIntents,
                   requests>>
    /\ UNCHANGED <<fleet, machine, call>>

\* handlePaymentSucceeded: staysClient.getReservation for the booking code.
SucceededGetReservation(p) ==
    /\ At(p, "wh_get")
    /\ \/ proc' = [proc EXCEPT ![p].pc = "wh_booked", ![p].ext = 1]
       \/ WebhookCatch(p, proc[p].read, "pms_error")
    /\ UNCHANGED <<store, pastHoldExpiry, pms, pspIntents, requests>>
    /\ UNCHANGED <<fleet, machine, call>>

\* The booking code of the PMS is not written with the BOOKED state.
SucceededBooked_noCode(p) ==
    /\ At(p, "wh_booked")
    /\ LET r == transitionState(checkout, "BOOKED", "system", NoUpdates) IN
        /\ checkout' = r.doc
        /\ IF ~Returned(r) THEN WebhookCatch(p, proc[p].read, r.outcome)
           ELSE proc' = [proc EXCEPT ![p].pc = "wh_mark"]
    /\ UNCHANGED <<idempotencyKeys, webhookEvents, pastHoldExpiry, pms,
                   pspIntents, requests>>
    /\ UNCHANGED <<fleet, machine, call>>

\* handlePaymentSucceeded: transitionState(BOOKED, {staysBookingCode}).
SucceededBooked(p) ==
    /\ At(p, "wh_booked")
    /\ LET r == transitionState(checkout, "BOOKED", "system",
                                [staysBookingCode |-> proc[p].ext]) IN
        /\ checkout' = r.doc
        /\ IF ~Returned(r) THEN WebhookCatch(p, proc[p].read, r.outcome)
           ELSE proc' = [proc EXCEPT ![p].pc = "wh_mark"]
    /\ UNCHANGED <<idempotencyKeys, webhookEvents, pastHoldExpiry, pms,
                   pspIntents, requests>>
    /\ UNCHANGED <<fleet, machine, call>>

\* handlePaymentFailed moves the checkout to FAILED.
PaymentFailed_fails(p) ==
    /\ At(p, "wh_failed")
    /\ IF ~checkout.exists
          THEN WebhookCatch(p, StateSeen, "not_found") /\ UNCHANGED checkout
          ELSE /\ checkout' = transitionState(checkout, "FAILED", "webhook",
                                              NoUpdates).doc
               /\ proc' = [proc EXCEPT ![p].pc = "wh_mark"]
    /\ UNCHANGED <<idempotencyKeys, webhookEvents, pastHoldExpiry, pms,
                   pspIntents, requests>>
    /\ UNCHANGED <<fleet, machine, call>>

\* handlePaymentFailed: getCheckout, nothing written.
PaymentFailed(p) ==
    /\ At(p, "wh_failed")
    /\ IF ~checkout.exists THEN WebhookCatch(p, StateSeen, "not_found")
       ELSE proc' = [proc EXCEPT ![p].pc = "wh_mark"]
    /\ UNCHANGED <<store, pastHoldExpiry, pms, pspIntents, requests>>
    /\ UNCHANGED <<fleet, machine, call>>

\* The handler has returned: markProcessed, then 200.
MarkProcessed(p) ==
    /\ At(p, "wh_mark")
    /\ webhookEvents' = webhookEvents \cup {proc[p].event}
    /\ proc' = [proc EXCEPT ![p] =
                   Answer([proc[p] EXCEPT !.marked = TRUE], 200,
                          ReceivedBody("processed"), "processed")]
    /\ UNCHANGED <<checkout, idempotencyKeys, pastHoldExpiry, pms, pspIntents,
                   requests>>
    /\ UNCHANGED <<fleet, machine, call>>

\* ------------------------------------------------------------ POST /checkout/:id/cancel
\* cancelCheckout: getCheckout.
PostCancel(p) ==
    /\ CanStart(p)
    /\ requests' = requests + 1
    /\ LET req == [Idle EXCEPT !.op = "cancel",
                               !.snap = checkout]
       IN  IF ~checkout.exists
              THEN proc' = [proc EXCEPT ![p] =
                               Answer(req, 500, ErrorBody("not_found"), "not_found")]
              ELSE proc' = [proc EXCEPT ![p] =
                               [req EXCEPT !.pc =
                                   IF checkout.staysReservationId # Unset
                                      THEN "cancel_pms" ELSE "cancel_transition"]]
    /\ UNCHANGED <<store, pastHoldExpiry, pms, pspIntents>>
    /\ UNCHANGED <<fleet, machine, call>>

\* How the PMS refuses a cancellation: a server error or timeout, or 404
\* NOT_FOUND when the reservation is already gone (StaysApiError either way).
CancelFailures == {"pms_error", "pms_not_found"}

\* cancelCheckout: staysClient.cancelReservation.
CancelReservation(p) ==
    /\ At(p, "cancel_pms")
    /\ \/ /\ pmsReservations' =
                 [pmsReservations EXCEPT ![proc[p].snap.staysReservationId] = "canceled"]
          /\ proc' = [proc EXCEPT ![p].pc = "cancel_transition"]
       \/ /\ \E failure \in CancelFailures : Throw(p, failure)
          /\ UNCHANGED pmsReservations
    /\ UNCHANGED <<store, pastHoldExpiry, pmsCalls, pspIntents, requests>>
    /\ UNCHANGED <<fleet, machine, call>>

\* cancelCheckout: transitionState(CANCELED, {actor: 'user'}).
CancelTransition(p) ==
    /\ At(p, "cancel_transition")
    /\ LET r == transitionState(checkout, "CANCELED", "user", NoUpdates)
           req == [proc[p] EXCEPT !.read = StateSeen, !.target = "CANCELED"]
       IN
        /\ checkout' = r.doc
        /\ proc' = [proc EXCEPT ![p] =
                       IF Returned(r)
                          THEN Answer(req, 200, CancelBody(r.doc.state), r.outcome)
                          ELSE Answer(req, 500, ErrorBody(r.outcome), r.outcome)]
    /\ UNCHANGED <<idempotencyKeys, webhookEvents, pastHoldExpiry, pms,
                   pspIntents, requests>>
    /\ UNCHANGED <<fleet, machine, call>>

\* ------------------------------------------------------------ POST /jobs/expire-holds
PostExpireHolds(p) ==
    /\ CanStart(p)
    /\ requests' = requests + 1
    /\ proc' = [proc EXCEPT ![p] =
                   [Idle EXCEPT !.pc = "sweep_query", !.op = "expire-holds", !.idx = 1]]
    /\ UNCHANGED <<store, pastHoldExpiry, pms, pspIntents>>
    /\ UNCHANGED <<fleet, machine, call>>

\* expireHolds: the loop moves to the next expirable state, or returns.
SweepNext(p, expiredCount, errorCount) ==
    IF proc[p].idx < Len(EXPIRABLE_STATES)
       THEN proc' = [proc EXCEPT ![p].pc = "sweep_query", ![p].idx = @ + 1,
                                 ![p].snap = NoDoc,
                                 ![p].expiredCount = expiredCount,
                                 ![p].errorCount = errorCount]
       ELSE proc' = [proc EXCEPT ![p] =
                        Answer([proc[p] EXCEPT !.expiredCount = expiredCount,
                                               !.errorCount = errorCount],
                               200, SweepBody(expiredCount, errorCount), "swept")]

\* expireHolds: the query for one expirable state with holdExpiresAt < now.
SweepQuery(p) ==
    /\ At(p, "sweep_query")
    /\ IF /\ checkout.exists
          /\ checkout.state = EXPIRABLE_STATES[proc[p].idx]
          /\ checkout.holdExpiresAt # Unset
          /\ pastHoldExpiry
       THEN proc' = [proc EXCEPT
                        ![p].pc = IF checkout.staysReservationId # Unset
                                     THEN "sweep_cancel" ELSE "sweep_transition",
                        ![p].snap = checkout]
       ELSE SweepNext(p, proc[p].expiredCount, proc[p].errorCount)
    /\ UNCHANGED <<store, pastHoldExpiry, pms, pspIntents, requests>>
    /\ UNCHANGED <<fleet, machine, call>>

\* The cancellation is best effort: when it fails the sweep goes on to the
\* transition.
SweepCancelReservation_bestEffort(p) ==
    /\ At(p, "sweep_cancel")
    /\ \/ /\ pmsReservations' =
                 [pmsReservations EXCEPT ![proc[p].snap.staysReservationId] = "canceled"]
          /\ proc' = [proc EXCEPT ![p].pc = "sweep_transition"]
       \/ /\ proc' = [proc EXCEPT ![p].pc = "sweep_transition"]
          /\ UNCHANGED pmsReservations
    /\ UNCHANGED <<store, pastHoldExpiry, pmsCalls, pspIntents, requests>>
    /\ UNCHANGED <<fleet, machine, call>>

\* expireHolds: staysClient.cancelReservation of the document found.
SweepCancelReservation(p) ==
    /\ At(p, "sweep_cancel")
    /\ \/ /\ pmsReservations' =
                 [pmsReservations EXCEPT ![proc[p].snap.staysReservationId] = "canceled"]
          /\ proc' = [proc EXCEPT ![p].pc = "sweep_transition"]
       \/ /\ SweepNext(p, proc[p].expiredCount, proc[p].errorCount + 1)
          /\ UNCHANGED pmsReservations
    /\ UNCHANGED <<store, pastHoldExpiry, pmsCalls, pspIntents, requests>>
    /\ UNCHANGED <<fleet, machine, call>>

\* expireHolds: transitionState(EXPIRED) inside the try of the loop.
SweepTransition(p) ==
    /\ At(p, "sweep_transition")
    /\ LET r == transitionState(checkout, "EXPIRED", "system", NoUpdates) IN
        /\ checkout' = r.doc
        /\ IF Returned(r)
              THEN SweepNext(p, proc[p].expiredCount + 1, proc[p].errorCount)
              ELSE SweepNext(p, proc[p].expiredCount, proc[p].errorCount + 1)
    /\ UNCHANGED <<idempotencyKeys, webhookEvents, pastHoldExpiry, pms,
                   pspIntents, requests>>
    /\ UNCHANGED <<fleet, machine, call>>

\* ------------------------------------------------------------ the system
\* The deployed routes and jobs.
Next ==
    \/ InitializeCheckout
    \/ \E g \in Guests : UpdateGuestInfo(g)
    \/ HoldTtlElapses
    \/ \E p \in Procs : Return(p)
    \/ \E p \in Procs : StoreIdempotencyRecord(p)
    \/ \E ek \in Endpoints \X Keys : IdempotencyTtlElapses(ek)
    \/ \E p \in Procs : IdempotencyDelete(p)
    \/ \E p \in Procs, k \in Keys \cup {NoKey} : PostHold(p, k)
    \/ \E p \in Procs : HoldRead(p)
    \/ \E p \in Procs : HoldPmsCreate(p)
    \/ \E p \in Procs : HoldCommit(p)
    \/ \E p \in Procs, k \in Keys \cup {NoKey} : PostPaymentIntent(p, k)
    \/ \E p \in Procs : PaymentIntentRead(p)
    \/ \E p \in Procs : PaymentIntentRetrieve(p)
    \/ \E p \in Procs : PaymentIntentCreate(p)
    \/ \E p \in Procs : PaymentIntentTransition(p)
    \/ \E p \in Procs, e \in Events : PostWebhook(p, e)
    \/ \E p \in Procs : SucceededPaid(p)
    \/ \E p \in Procs : SucceededUpdateReservation(p)
    \/ \E p \in Procs : SucceededRegisterPayment(p)
    \/ \E p \in Procs : SucceededGetReservation(p)
    \/ \E p \in Procs : SucceededBooked(p)
    \/ \E p \in Procs : PaymentFailed(p)
    \/ \E p \in Procs : MarkProcessed(p)
    \/ \E p \in Procs : PostCancel(p)
    \/ \E p \in Procs : CancelReservation(p)
    \/ \E p \in Procs : CancelTransition(p)
    \/ \E p \in Procs : PostExpireHolds(p)
    \/ \E p \in Procs : SweepQuery(p)
    \/ \E p \in Procs : SweepCancelReservation(p)
    \/ \E p \in Procs : SweepTransition(p)

Spec == Init /\ [][Next]_vars

\* ------------------------------------------------------------ the library
\* transitionState called by a caller of its own (the function is exported
\* by lib/state-machine.ts): any target state, no updates.  The actor only
\* labels the history entry; the callers followed here pass one of them.
Actors == {"user"}

TransitionStateCall(p, targetState, actor) ==
    /\ CanStart(p)
    /\ requests' = requests + 1
    /\ LET r == transitionState(checkout, targetState, actor, NoUpdates)
           req == [Idle EXCEPT !.op = "transitionState", !.target = targetState,
                               !.read = StateSeen]
       IN
        /\ checkout' = r.doc
        /\ proc' = [proc EXCEPT ![p] = Answer(req, 0, NoBody, r.outcome)]
    /\ UNCHANGED <<idempotencyKeys, webhookEvents, pastHoldExpiry, pms,
                   pspIntents>>
    /\ UNCHANGED <<fleet, machine, call>>

\* The routes and jobs, together with direct callers of transitionState.
NextLib ==
    \/ Next
    \/ \E p \in Procs, t \in CheckoutState, a \in Actors :
           TransitionStateCall(p, t, a)

SpecLib == Init /\ [][NextLib]_vars

\* ------------------------------------------------------------ POST /checkout/:id/finalize
\* res.json of the route (pending FALSE: the body has no `pending`).
FinalizeBody(success, pending, doc) ==
    [kind |-> "finalize", success |-> success, pending |-> pending,
     bookingCode |-> IF success /\ ~pending THEN doc.staysBookingCode ELSE Unset,
     state |-> doc.state]

\* Every checkout that is not final yet is reported as pending success.
FinalizeResponse_pendingUnlessFinal(doc) ==
    IF doc.state = "BOOKED" THEN FinalizeBody(TRUE, FALSE, doc)
    ELSE IF ~isTerminal(doc.state) THEN FinalizeBody(TRUE, TRUE, doc)
    ELSE FinalizeBody(FALSE, FALSE, doc)

\* The route's answer for the checkout waitForConfirmation returned.
FinalizeResponse(doc) ==
    IF doc.state = "BOOKED" THEN FinalizeBody(TRUE, FALSE, doc)
    ELSE IF doc.state = "PAID" THEN FinalizeBody(TRUE, TRUE, doc)
    ELSE FinalizeBody(FALSE, FALSE, doc)

\* The route is called (no idempotency middleware); the wait begins.
PostFinalize(p) ==
    /\ CanStart(p)
    /\ requests' = requests + 1
    /\ proc' = [proc EXCEPT ![p] = [Idle EXCEPT !.op = "finalize", !.pc = "fin_poll"]]
    /\ UNCHANGED <<store, pastHoldExpiry, pms, pspIntents>>
    /\ UNCHANGED <<fleet, machine, call>>

\* waitForConfirmation, a poll inside the loop that ends the wait: the
\* checkout is missing, or BOOKED, FAILED or EXPIRED.  Any other poll waits.
FinalizePoll(p) ==
    /\ At(p, "fin_poll")
    /\ IF ~checkout.exists THEN Throw(p, "not_found")
       ELSE /\ checkout.state \in {"BOOKED", "FAILED", "EXPIRED"}
            /\ proc' = [proc EXCEPT ![p] =
                            Answer([proc[p] EXCEPT !.read = StateSeen,
                                                   !.target = "polled"],
                                   200, FinalizeResponse(checkout), "confirmed")]
    /\ UNCHANGED <<store, pastHoldExpiry, pms, pspIntents, requests>>
    /\ UNCHANGED <<fleet, machine, call>>

\* waitForConfirmation, maxWaitMs elapsed: the checkout as it is now (checkout!
\* of a missing document is undefined, and the route's read of its state throws).
FinalizeTimeout(p) ==
    /\ At(p, "fin_poll")
    /\ IF ~checkout.exists THEN Throw(p, "type_error")
       ELSE proc' = [proc EXCEPT ![p] =
                        Answer([proc[p] EXCEPT !.read = StateSeen,
                                               !.target = "timeout"],
                               200, FinalizeResponse(checkout), "timeout")]
    /\ UNCHANGED <<store, pastHoldExpiry, pms, pspIntents, requests>>
    /\ UNCHANGED <<fleet, machine, call>>

\* The routes and jobs, together with the finalize route.
NextFinalize ==
    \/ Next
    \/ \E p \in Procs : PostFinalize(p)
    \/ \E p \in Procs : FinalizePoll(p)
    \/ \E p \in Procs : FinalizeTimeout(p)

SpecFinalize == Init /\ [][NextFinalize]_vars

\* ------------------------------------------------------------ one client, nothing failing
\* A step after which no request has been answered with an error and the
\* second slot is still free: one request at a time, each one succeeding.
HappyStep ==
    /\ \A p \in Procs : proc'[p].status < 400
    /\ proc'["h2"] = Idle

\* The requests of one client and of the PSP's succeeded delivery, in any
\* order, while the hold lasts and no idempotency record expires.
NextHappy ==
    \/ InitializeCheckout /\ HappyStep
    \/ (\E g \in Guests : UpdateGuestInfo(g)) /\ HappyStep
    \/ (\E p \in Procs : Return(p)) /\ HappyStep
    \/ (\E p \in Procs : StoreIdempotencyRecord(p)) /\ HappyStep
    \/ (\E p \in Procs, k \in Keys : PostHold(p, k)) /\ HappyStep
    \/ (\E p \in Procs : HoldRead(p)) /\ HappyStep
    \/ (\E p \in Procs : HoldPmsCreate(p)) /\ HappyStep
    \/ (\E p \in Procs : HoldCommit(p)) /\ HappyStep
    \/ (\E p \in Procs, k \in Keys : PostPaymentIntent(p, k)) /\ HappyStep
    \/ (\E p \in Procs : PaymentIntentRead(p)) /\ HappyStep
    \/ (\E p \in Procs : PaymentIntentCreate(p)) /\ HappyStep
    \/ (\E p \in Procs : PaymentIntentTransition(p)) /\ HappyStep
    \/ (\E p \in Procs : PostWebhook(p, "evt_succeeded")) /\ HappyStep
    \/ (\E p \in Procs : SucceededPaid(p)) /\ HappyStep
    \/ (\E p \in Procs : SucceededUpdateReservation(p)) /\ HappyStep
    \/ (\E p \in Procs : SucceededRegisterPayment(p)) /\ HappyStep
    \/ (\E p \in Procs : SucceededGetReservation(p)) /\ HappyStep
    \/ (\E p \in Procs : SucceededBooked(p)) /\ HappyStep
    \/ (\E p \in Procs : MarkProcessed(p)) /\ HappyStep
    \/ (\E p \in Procs : PostFinalize(p)) /\ HappyStep
    \/ (\E p \in Procs : FinalizePoll(p)) /\ HappyStep
    \/ (\E p \in Procs : FinalizeTimeout(p)) /\ HappyStep

SpecHappy == Init /\ [][NextHappy]_vars

\* ------------------------------------------------------------ services/stays-client.ts
MAX_RETRIES == 2
RETRY_DELAY_MS == 1000

\* The methods of StaysClient that reach the PMS.
TransactionalWrites ==
    {"createReservation", "updateReservation", "cancelReservation",
     "registerPayment"}
Reads ==
    {"searchListings", "getListingDetail", "getListingCalendar",
     "calculatePrice", "getGroups", "getGroup", "getReservation"}
Methods == TransactionalWrites \cup Reads

\* Every method asks for a retry.
RetryOption_always(method) == TRUE

\* The retry option each method passes to get, post or patch.
RetryOption(method) == method \in Reads

\* What one fetch can end with: a 2xx, a 4xx or a 5xx response, a network
\* error (fetch rejects), or the abort of the timeout.
FetchOutcomes == {"ok", "4xx", "5xx", "network", "timeout"}

\* const maxAttempts = retry ? MAX_RETRIES : 1.
MaxAttempts(retry) == IF retry THEN MAX_RETRIES ELSE 1

\* const delay = RETRY_DELAY_MS * Math.pow(2, attempt - 1).
RetryDelay(attempt) == RETRY_DELAY_MS * 2 ^ (attempt - 1)

\* A method of the client calls request(method, path, body, retry, timeoutMs).
RequestStart(method) ==
    /\ call.fn = "none"
    /\ call' = [fn |-> "request", method |-> method,
                maxAttempts |-> MaxAttempts(RetryOption(method)),
                attempt |-> 1, pc |-> "fetch", responses |-> <<>>,
                delays |-> <<>>, thrown |-> "none"]
    /\ UNCHANGED <<routes, fleet, machine>>

\* One turn of the for loop: the fetch, and the try or the catch on its end.
RequestFetch(outcome) ==
    /\ call.fn = "request"
    /\ call.pc = "fetch"
    /\ LET seen == [call EXCEPT !.responses = Append(@, outcome)] IN
       call' =
           CASE outcome = "ok" -> [seen EXCEPT !.pc = "returned"]
             [] outcome = "4xx" -> [seen EXCEPT !.pc = "thrown", !.thrown = "4xx"]
             [] outcome = "timeout" -> [seen EXCEPT !.pc = "thrown", !.thrown = "408"]
             [] OTHER ->
                  IF call.attempt < call.maxAttempts
                     THEN [seen EXCEPT !.pc = "sleep"]
                     ELSE [seen EXCEPT !.pc = "thrown", !.thrown = outcome]
    /\ UNCHANGED <<routes, fleet, machine>>

\* await this.sleep(delay), then the next turn of the loop.
RequestSleep ==
    /\ call.fn = "request"
    /\ call.pc = "sleep"
    /\ call' = [call EXCEPT !.delays = Append(@, RetryDelay(call.attempt)),
                            !.attempt = @ + 1,
                            !.pc = "fetch"]
    /\ UNCHANGED <<routes, fleet, machine>>

\* The caller has the answer or the error.
RequestEnds ==
    /\ call.fn = "request"
    /\ call.pc \in {"returned", "thrown"}
    /\ call' = NoCall
    /\ UNCHANGED <<routes, fleet, machine>>

NextClient ==
    \/ \E method \in Methods : RequestStart(method)
    \/ \E outcome \in FetchOutcomes : RequestFetch(outcome)
    \/ RequestSleep
    \/ RequestEnds

SpecClient == Init /\ [][NextClient]_vars

\* ------------------------------------------------------------ schemas/checkout-schema.ts
\* Time is counted in hours since the UTC midnight that begins day 0; a
\* calendar date is the number of its day.
HoursPerDay == 24

\* The strings a request carries as checkIn or checkOut: a calendar date, a
\* string the regex refuses, and a string of the right shape that names no
\* date (new Date of it is an Invalid Date).
Malformed == [kind |-> "malformed"]
NoDate == [kind |-> "nodate"]
DateString(day) == [kind |-> "date", day |-> day]
CheckInStrings == {DateString(d) : d \in 0..3} \cup {Malformed, NoDate}
CheckOutStrings == {DateString(d) : d \in 1..3} \cup {Malformed}
AdultsGiven == {0, 1, 2}

\* The instants the request arrives at (all within UTC day 1, early and late)
\* and the offsets of the server's local time from UTC, in hours.
Instants == {HoursPerDay + h : h \in {0, 1, 12, 22, 23}}
UtcOffsets == {-3, 0, 2}

\* /^\d{4}-\d{2}-\d{2}$/.test(val).
MatchesFormat(s) == s.kind # "malformed"

\* new Date(val) of a date-only string is UTC midnight of that date; NaN is
\* written -1 and compares false with everything.
NaN == -1
DateOf(s) == IF s.kind = "date" THEN s.day * HoursPerDay ELSE NaN

\* The day of the server's local calendar at instant now.
LocalDay(now, offset) == (now + offset) \div HoursPerDay

\* const today = new Date(); today.setHours(0, 0, 0, 0): the instant of the
\* local midnight that began the local day.
TodayMidnight(now, offset) == LocalDay(now, offset) * HoursPerDay - offset

\* The refinement of futureDate: date >= today.
FutureDateRefine(s, now, offset) ==
    DateOf(s) # NaN /\ DateOf(s) >= TodayMidnight(now, offset)

\* The refinement of the body: checkOut > checkIn.
CheckOutAfterCheckIn(checkIn, checkOut) ==
    /\ DateOf(checkIn) # NaN
    /\ DateOf(checkOut) # NaN
    /\ DateOf(checkOut) > DateOf(checkIn)

\* The messages of the issues initializeCheckoutSchema reports, in order.
SchemaIssues(checkIn, checkOut, adults, now, offset) ==
    (IF MatchesFormat(checkIn) THEN <<>> ELSE <<"Formato invalido (AAAA-MM-DD)">>)
    \o (IF FutureDateRefine(checkIn, now, offset) THEN <<>>
        ELSE <<"A data deve ser hoje ou no futuro">>)
    \o (IF MatchesFormat(checkOut) THEN <<>> ELSE <<"Formato invalido (AAAA-MM-DD)">>)
    \o (IF adults >= 1 THEN <<>> ELSE <<"Pelo menos um adulto e necessario">>)
    \o (IF CheckOutAfterCheckIn(checkIn, checkOut) THEN <<>>
        ELSE <<"A data de check-out deve ser apos o check-in">>)

\* POST /checkout/initialize arrives: validate(initializeCheckoutSchema).
SchemaParseStart(checkIn, checkOut, adults, now, offset) ==
    /\ call.fn = "none"
    /\ call' = [fn |-> "initializeCheckoutSchema", pc |-> "parse",
                checkIn |-> checkIn, checkOut |-> checkOut, adults |-> adults,
                now |-> now, offset |-> offset, issues |-> <<>>]
    /\ UNCHANGED <<routes, fleet, machine>>

\* safeParseAsync has its result: success exactly when there is no issue.
SchemaParse ==
    /\ call.fn = "initializeCheckoutSchema"
    /\ call.pc = "parse"
    /\ call' = [call EXCEPT
                   !.pc = "done",
                   !.issues = SchemaIssues(call.checkIn, call.checkOut,
                                           call.adults, call.now, call.offset)]
    /\ UNCHANGED <<routes, fleet, machine>>

\* The request is answered (400 on issues) or handed on.
SchemaParseEnds ==
    /\ call.fn = "initializeCheckoutSchema"
    /\ call.pc = "done"
    /\ call' = NoCall
    /\ UNCHANGED <<routes, fleet, machine>>

NextSchema ==
    \/ \E checkIn \in CheckInStrings, checkOut \in CheckOutStrings,
          adults \in AdultsGiven, now \in Instants, offset \in UtcOffsets :
            SchemaParseStart(checkIn, checkOut, adults, now, offset)
    \/ SchemaParse
    \/ SchemaParseEnds

SpecSchema == Init /\ [][NextSchema]_vars

\* ------------------------------------------------------------ waitForConfirmation, with its clock
\* One call of waitForConfirmation followed poll by poll, the time counted in
\* seconds, while other handlers move the checkout.
\* The longest maxWaitMs followed, in seconds (the route caps it at 30 s).
MaxWaitSeconds == 3

\* What one turn of the loop takes: the poll and the 1 s setTimeout, which
\* fires after one second or later.
TurnSeconds == {1, 2}

\* startTime is taken anew at every turn of the loop.
Elapsed_restarted(elapsed, turn) == 0

\* Date.now() - startTime after a turn of the loop that took `turn` seconds.
Elapsed(elapsed, turn) == elapsed + turn

InitWait ==
    /\ checkout \in {NoDoc} \cup {NewCheckout(total) : total \in QuoteTotals}
    /\ idempotencyKeys = [ek \in Endpoints \X Keys |-> NoRecord]
    /\ webhookEvents = {}
    /\ pastHoldExpiry = FALSE
    /\ pmsReservations = <<>>
    /\ pmsCalls = [updateReservation |-> 0, registerPayment |-> 0]
    /\ pspIntents = 0
    /\ requests = 0
    /\ proc = [p \in Procs |-> Idle]
    /\ checkouts = <<>>
    /\ canceled = {}
    /\ sweep = [pc |-> "idle", idx |-> 0, batch |-> <<>>, found |-> 0,
                expiredCount |-> 0, errorCount |-> 0]
    /\ machine = NoMachine
    /\ call = NoCall

\* The finalize route calls waitForConfirmation(checkoutId, maxWaitMs).
WaitStart(maxWait) ==
    /\ call.fn = "none"
    /\ call' = [fn |-> "waitForConfirmation", pc |-> "loop", maxWait |-> maxWait,
                elapsed |-> 0, result |-> NoDoc]
    /\ UNCHANGED <<routes, fleet, machine>>

\* A turn of the loop: getCheckout, and the return or throw on what it read.
WaitPoll ==
    /\ call.fn = "waitForConfirmation"
    /\ call.pc = "loop"
    /\ call.elapsed < call.maxWait
    /\ call' = IF ~checkout.exists
                  THEN [call EXCEPT !.pc = "thrown"]
               ELSE IF checkout.state \in {"BOOKED", "FAILED", "EXPIRED"}
                  THEN [call EXCEPT !.pc = "returned",
                                    !.result = checkout]
               ELSE [call EXCEPT !.pc = "sleep"]
    /\ UNCHANGED <<routes, fleet, machine>>

\* The wait before the next poll.
WaitSleep(turn) ==
    /\ call.fn = "waitForConfirmation"
    /\ call.pc = "sleep"
    /\ call' = [call EXCEPT !.pc = "loop", !.elapsed = Elapsed(@, turn)]
    /\ UNCHANGED <<routes, fleet, machine>>

\* The loop condition fails: the checkout as it is now is returned.
WaitDeadline ==
    /\ call.fn = "waitForConfirmation"
    /\ call.pc = "loop"
    /\ call.elapsed >= call.maxWait
    /\ call' = [call EXCEPT !.pc = "returned", !.result = checkout]
    /\ UNCHANGED <<routes, fleet, machine>>

\* Another handler moves the checkout meanwhile, along the graph.
WaitOtherHandlerMoves(targetState) ==
    /\ LET r == transitionState(checkout, targetState, "system", NoUpdates) IN
          /\ r.outcome = "ok"
          /\ checkout' = r.doc
    /\ UNCHANGED <<idempotencyKeys, webhookEvents, pastHoldExpiry, pms,
                   pspIntents, requests, proc>>
    /\ UNCHANGED <<fleet, machine, call>>

NextWait ==
    \/ \E maxWait \in 1..MaxWaitSeconds : WaitStart(maxWait)
    \/ WaitPoll
    \/ \E turn \in TurnSeconds : WaitSleep(turn)
    \/ WaitDeadline
    \/ \E t \in CheckoutState : WaitOtherHandlerMoves(t)

\* The store answers every getCheckout and every timer fires.
SpecWait ==
    /\ InitWait
    /\ [][NextWait]_vars
    /\ WF_vars(WaitPoll)
    /\ WF_vars(\E turn \in TurnSeconds : WaitSleep(turn))
    /\ WF_vars(WaitDeadline)

\* ------------------------------------------------------------ expireHolds over many checkouts
\* The job run by the scheduler again and again over a collection that holds
\* several checkouts past their holdExpiresAt.
\* Their ids, in the order the query returns them (by holdExpiresAt).
Holds == <<"c1", "c2", "c3">>
HoldIds == {Holds[i] : i \in 1..Len(Holds)}
\* .limit(...) of the query, scaled to the size of the collection.
BatchLimit == 2

\* A checkout createHold (and, for PAYMENT_CREATED, createPaymentIntent) has
\* served, now past its holdExpiresAt.
ExpiredHold(state) ==
    LET held == HoldUpdates([NewCheckout(10504) EXCEPT !.guest = "g1"], 1)
    IN  IF state = "HOLD_CREATED" THEN held
        ELSE transitionState(held, "PAYMENT_CREATED", "system",
                             [stripePaymentIntentId |-> 1]).doc

InitSweep ==
    /\ checkout = NoDoc
    /\ idempotencyKeys = [ek \in Endpoints \X Keys |-> NoRecord]
    /\ webhookEvents = {}
    /\ pastHoldExpiry = FALSE
    /\ pmsReservations = <<>>
    /\ pmsCalls = [updateReservation |-> 0, registerPayment |-> 0]
    /\ pspIntents = 0
    /\ requests = 0
    /\ proc = [p \in Procs |-> Idle]
    /\ \E states \in [HoldIds -> {"HOLD_CREATED", "PAYMENT_CREATED"}] :
          checkouts = [c \in HoldIds |-> ExpiredHold(states[c])]
    /\ canceled = {}
    /\ sweep = [pc |-> "idle", idx |-> 0, batch |-> <<>>, found |-> 0,
                expiredCount |-> 0, errorCount |-> 0]
    /\ machine = NoMachine
    /\ call = NoCall

\* The first n elements of seq.
Limit(seq, n) == SubSeq(seq, 1, IF Len(seq) < n THEN Len(seq) ELSE n)

\* snapshot.docs of the query for one expirable state.
ExpiredIn(state) ==
    Limit(SelectSeq(Holds, LAMBDA c : checkouts[c].state = state), BatchLimit)

\* The job stops after the first expirable state.
ExpireHoldsNextState_firstOnly(s) == [s EXCEPT !.pc = "return", !.batch = <<>>]

\* The outer loop: the next expirable state, or the job returns its counts.
ExpireHoldsNextState(s) ==
    IF s.idx < Len(EXPIRABLE_STATES)
       THEN [s EXCEPT !.pc = "query", !.idx = @ + 1, !.batch = <<>>]
       ELSE [s EXCEPT !.pc = "return", !.batch = <<>>]

\* The inner loop: the next document of the snapshot.
ExpireHoldsNextDoc(s) ==
    IF Len(s.batch) > 1
       THEN [s EXCEPT !.pc = "cancel", !.batch = Tail(@)]
       ELSE ExpireHoldsNextState(s)

\* POST /jobs/expire-holds is called by the scheduler.
ExpireHoldsTriggered ==
    /\ sweep.pc = "idle"
    /\ sweep' = [pc |-> "query", idx |-> 1, batch |-> <<>>, found |-> 0,
                 expiredCount |-> 0, errorCount |-> 0]
    /\ UNCHANGED <<routes, machine, call, checkouts, canceled>>

\* The query for one expirable state; `found` counts the documents the
\* snapshots of this run held.
ExpireHoldsQuery ==
    /\ sweep.pc = "query"
    /\ LET docs == ExpiredIn(EXPIRABLE_STATES[sweep.idx]) IN
          sweep' = IF docs = <<>> THEN ExpireHoldsNextState(sweep)
                   ELSE [sweep EXCEPT !.pc = "cancel", !.batch = docs,
                                      !.found = @ + Len(docs)]
    /\ UNCHANGED <<routes, machine, call, checkouts, canceled>>

\* return { expiredCount, errorCount }: the job is over.
ExpireHoldsReturns ==
    /\ sweep.pc = "return"
    /\ sweep' = [pc |-> "idle", idx |-> 0, batch |-> <<>>, found |-> 0,
                 expiredCount |-> 0, errorCount |-> 0]
    /\ UNCHANGED <<routes, machine, call, checkouts, canceled>>

ExpireHoldsCancelSucceeds ==
    /\ sweep.pc = "cancel"
    /\ canceled' = canceled \cup {Head(sweep.batch)}
    /\ sweep' = [sweep EXCEPT !.pc = "transition"]
    /\ UNCHANGED <<routes, machine, call, checkouts>>

\* The error of cancelReservation is caught around the call alone: the
\* transition to EXPIRED is made all the same.
ExpireHoldsCancelFails_expires ==
    /\ sweep.pc = "cancel"
    /\ sweep' = [sweep EXCEPT !.pc = "transition", !.errorCount = @ + 1]
    /\ UNCHANGED <<routes, machine, call, checkouts, canceled>>

\* The error of cancelReservation is not caught: the job ends with it.
ExpireHoldsCancelFails_aborts ==
    /\ sweep.pc = "cancel"
    /\ sweep' = [sweep EXCEPT !.pc = "return", !.batch = <<>>,
                              !.errorCount = @ + 1]
    /\ UNCHANGED <<routes, machine, call, checkouts, canceled>>

ExpireHoldsCancelFails ==
    /\ sweep.pc = "cancel"
    /\ sweep' = ExpireHoldsNextDoc([sweep EXCEPT !.errorCount = @ + 1])
    /\ UNCHANGED <<routes, machine, call, checkouts, canceled>>

ExpireHoldsTransition ==
    /\ sweep.pc = "transition"
    /\ LET c == Head(sweep.batch)
           r == transitionState(checkouts[c], "EXPIRED", "system", NoUpdates)
       IN
        /\ checkouts' = [checkouts EXCEPT ![c] = r.doc]
        /\ sweep' = ExpireHoldsNextDoc(
                        IF Returned(r)
                           THEN [sweep EXCEPT !.expiredCount = @ + 1]
                           ELSE [sweep EXCEPT !.errorCount = @ + 1])
    /\ UNCHANGED <<routes, machine, call, canceled>>

\* Another handler moves checkout c meanwhile: createPaymentIntent, a
\* succeeded payment, or cancelCheckout (which cancels the reservation first).
OtherHandlerMoves(c, targetState) ==
    /\ LET r == transitionState(checkouts[c], targetState, "system", NoUpdates) IN
        /\ r.outcome = "ok"
        /\ checkouts' = [checkouts EXCEPT ![c] = r.doc]
    /\ canceled' = IF targetState = "CANCELED" THEN canceled \cup {c} ELSE canceled
    /\ UNCHANGED <<routes, machine, call, sweep>>

NextSweep ==
    \/ ExpireHoldsTriggered
    \/ ExpireHoldsQuery
    \/ ExpireHoldsCancelSucceeds
    \/ ExpireHoldsCancelFails
    \/ ExpireHoldsTransition
    \/ ExpireHoldsReturns
    \/ \E c \in HoldIds, t \in {"PAYMENT_CREATED", "PAID", "CANCELED"} :
           OtherHandlerMoves(c, t)

\* The scheduler keeps calling the job, the job keeps running, and the PMS
\* does not refuse cancelReservation forever.
SpecSweep ==
    /\ InitSweep
    /\ [][NextSweep]_vars
    /\ WF_vars(ExpireHoldsTriggered)
    /\ WF_vars(ExpireHoldsQuery)
    /\ WF_vars(ExpireHoldsCancelSucceeds \/ ExpireHoldsCancelFails)
    /\ WF_vars(ExpireHoldsTransition)
    /\ WF_vars(ExpireHoldsReturns)
    /\ SF_vars(ExpireHoldsCancelSucceeds)

\* ------------------------------------------------------------ lib/state-machine.ts called directly
\* transitionState and tryTransitionState called one after the other on one
\* document, with any target state and the updates the callers pass.
\* Number of calls followed (each call reads the clock once).
MaxClock == 5

\* options.updates as the callers in checkout-service.ts pass them.
UpdatesGiven == {NoUpdates, [stripePaymentIntentId |-> 1], [staysBookingCode |-> 1]}

\* The document as stored, with the updatedAt initializeCheckout wrote.
Stored(doc) == [updatedAt |-> 0] @@ doc

InitMachine ==
    /\ checkout = NoDoc
    /\ idempotencyKeys = [ek \in Endpoints \X Keys |-> NoRecord]
    /\ webhookEvents = {}
    /\ pastHoldExpiry = FALSE
    /\ pmsReservations = <<>>
    /\ pmsCalls = [updateReservation |-> 0, registerPayment |-> 0]
    /\ pspIntents = 0
    /\ requests = 0
    /\ proc = [p \in Procs |-> Idle]
    /\ checkouts = <<>>
    /\ canceled = {}
    /\ sweep = [pc |-> "idle", idx |-> 0, batch |-> <<>>, found |-> 0,
                expiredCount |-> 0, errorCount |-> 0]
    /\ \E doc \in {NoDoc} \cup {Stored(NewCheckout(total)) : total \in QuoteTotals} :
          machine = [NoMachine EXCEPT !.doc = doc]
    /\ call = NoCall

\* The arguments of a call, with the document it found.
Call(fn, targetState, actor, updates) ==
    [fn |-> fn, targetState |-> targetState, actor |-> actor,
     updates |-> updates, before |-> machine.doc]

MachineTransitionState(targetState, actor, updates) ==
    /\ machine.now < MaxClock
    /\ LET now == machine.now + 1
           r == transitionStateAt(machine.doc, targetState, actor, updates, now)
       IN  machine' =
               [doc |-> r.doc, now |-> now,
                call |-> Call("transitionState", targetState, actor, updates),
                result |-> IF Returned(r)
                              THEN [kind |-> "returned", value |-> r.doc]
                              ELSE [kind |-> "thrown", value |-> r.outcome]]
    /\ UNCHANGED <<routes, fleet, call>>

MachineTryTransitionState(targetState, actor, updates) ==
    /\ machine.now < MaxClock
    /\ LET now == machine.now + 1
           r == tryTransitionState(machine.doc, targetState, actor, updates, now)
       IN  machine' =
               [doc |-> r.doc, now |-> now,
                call |-> Call("tryTransitionState", targetState, actor, updates),
                result |-> [kind |-> r.kind, value |-> r.value]]
    /\ UNCHANGED <<routes, fleet, call>>

NextMachine ==
    \/ \E t \in CheckoutState, a \in Actors, u \in UpdatesGiven :
           MachineTransitionState(t, a, u)
    \/ \E t \in CheckoutState, a \in Actors, u \in UpdatesGiven :
           MachineTryTransitionState(t, a, u)

SpecMachine == InitMachine /\ [][NextMachine]_vars

\* ------------------------------------------------------------ one delivery, alone
\* handlePaymentSucceeded run to its end with nothing else running and the
\* PMS answering (it knows the reservation of the checkout, if there is one):
\* whether it returned, and the document it leaves.
handlePaymentSucceeded(doc) ==
    LET paid == transitionState(doc, "PAID", "webhook", NoUpdates) IN
        IF ~Returned(paid) THEN [returned |-> FALSE, doc |-> paid.doc]
        ELSE IF paid.doc.state = "BOOKED" THEN [returned |-> TRUE, doc |-> paid.doc]
        ELSE IF paid.doc.staysReservationId = Unset
            THEN [returned |-> FALSE, doc |-> paid.doc]
        ELSE LET booked == transitionState(paid.doc, "BOOKED", "system",
                                           [staysBookingCode |-> 1])
             IN  [returned |-> Returned(booked), doc |-> booked.doc]

\* POST /webhooks/stripe for event e, run alone on the store (doc, events):
\* the store it leaves.
ProcessEvent(doc, events, e) ==
    IF checkWebhookIdempotency(events, e) THEN [doc |-> doc, events |-> events]
    ELSE IF Dispatch(e) = "wh_paid" THEN
        LET h == handlePaymentSucceeded(doc) IN
            [doc |-> h.doc,
             events |-> IF h.returned THEN events \cup {e} ELSE events]
    ELSE IF Dispatch(e) = "wh_failed" /\ ~doc.exists
        THEN [doc |-> doc, events |-> events]
    ELSE [doc |-> doc, events |-> events \cup {e}]

\* ------------------------------------------------------------ properties
\* The transition graph of the checkout contract.
AllowedGraph ==
    [s \in CheckoutState |->
        CASE s = "INITIATED"       -> {"HOLD_CREATED", "CANCELED", "FAILED"}
          [] s = "HOLD_CREATED"    -> {"PAYMENT_CREATED", "EXPIRED", "CANCELED", "FAILED"}
          [] s = "PAYMENT_CREATED" -> {"PAID", "EXPIRED", "CANCELED", "FAILED"}
          [] s = "PAID"            -> {"BOOKED", "FAILED"}
          [] s = "BOOKED"          -> {"CANCELED"}
          [] OTHER                 -> {}]

\* C1: under any interleaving of the routes, webhook deliveries, sweeper runs
\* and direct transitionState calls, every change of the checkout's stored
\* state from s to t (s # t) is an edge of the allowed graph; the write
\* createHold performs itself is one of the steps covered.
C1_StateFollowsGraph ==
    [][checkout.exists =>
          /\ checkout'.exists
          /\ checkout'.state # checkout.state
                => checkout'.state \in AllowedGraph[checkout.state]]_vars

\* C1 happens: a hold written by createHold itself, then a direct
\* transitionState call that moved the checkout on.
C1_Witness ==
    /\ checkout.exists
    /\ checkout.state = "FAILED"
    /\ Len(checkout.stateHistory) = 3
    /\ checkout.stateHistory[2] = StateTransition("INITIATED", "HOLD_CREATED", "system")
    /\ checkout.stateHistory[3] = StateTransition("HOLD_CREATED", "FAILED", "user")

\* C2: PMS createReservation is invoked at most once for the checkout, however
\* many createHold calls run concurrently and however often the transaction
\* body re-runs: the checkout never has more than one PMS reservation.
C2_AtMostOneReservation == Len(pmsReservations) <= 1

\* Slot p ran or is running the handler behind the idempotency middleware.
Executed(p) ==
    /\ proc[p].op \in Endpoints
    /\ proc[p].key # NoKey
    /\ ~proc[p].cached
    /\ proc[p].pc # "idle"

\* C3: identical requests (same endpoint, same Idempotency-Key) issued
\* concurrently to a protected endpoint cause the handler to execute exactly
\* once: no two of them both run the handler.
C3_HandlerRunsOnce ==
    \A p, q \in Procs :
        (p # q /\ Executed(p) /\ Executed(q))
            => (proc[p].op # proc[q].op \/ proc[p].key # proc[q].key)

\* C4: no persisted document (checkouts, idempotency_keys, webhook_events)
\* contains the PSP client secret, also after createPaymentIntent was served
\* through the idempotency middleware.
C4_NoSecretPersisted ==
    /\ checkout.exists => "clientSecret" \notin DOMAIN checkout
    /\ \A ek \in Endpoints \X Keys :
          idempotencyKeys[ek].exists
              => "clientSecret" \notin DOMAIN idempotencyKeys[ek].responseBody
    /\ \A e \in webhookEvents : e \in Events

\* C5: for each PSP event and every checkout state reached, processing the
\* event through the ingress twice leaves the checkout as processing it once
\* does; and once the event id is recorded as processed, a delivery of it is
\* answered 200 already_processed without being dispatched, and no step of
\* any delivery of it changes the checkout document.
C5_ProcessedEventChangesNothing ==
    /\ [](\A e \in Events :
            LET once == ProcessEvent(checkout, webhookEvents, e)
                twice == ProcessEvent(once.doc, once.events, e)
            IN  twice.doc = once.doc)
    /\ [][\A p \in Procs :
          (/\ proc'[p] # proc[p]
           /\ proc'[p].op = "webhook"
           /\ proc'[p].event \in webhookEvents)
             => /\ checkout' = checkout
                /\ proc[p].pc = "idle"
                      => /\ proc'[p].pc = "done"
                         /\ proc'[p].status = 200
                         /\ proc'[p].outcome = "already_processed"]_vars

\* C5 happens: the succeeded event was processed (the checkout is BOOKED) and
\* a further delivery of it has been answered.
C5_Witness ==
    /\ checkout.exists
    /\ checkout.state = "BOOKED"
    /\ \E p \in Procs :
          /\ proc[p].pc = "done"
          /\ proc[p].event = "evt_succeeded"
          /\ proc[p].outcome = "already_processed"

\* C6: the same payment_intent.succeeded event id delivered several times
\* (one after the other or concurrently) makes the PMS write sequence
\* (updateReservation, registerPayment) happen exactly once in total.
C6_PmsWritesOnce ==
    /\ pmsCalls.updateReservation <= 1
    /\ pmsCalls.registerPayment <= 1

\* C7: a payment_intent.succeeded delivery that finds the checkout EXPIRED
\* is answered 200 and its event id is marked processed (no PMS call, the
\* checkout stays EXPIRED).
C7_LateSucceededAccepted ==
    \A p \in Procs :
        (/\ proc[p].pc = "done"
         /\ proc[p].op = "webhook"
         /\ proc[p].event = "evt_succeeded"
         /\ proc[p].read = "EXPIRED")
            => /\ proc[p].status = 200
               /\ proc[p].marked
               /\ checkout.state = "EXPIRED"

\* C8: an event id is recorded in webhook_events only by the step that
\* follows the handler's return and it is answered 200; a delivery whose
\* handler throws is answered 5xx without recording the id; a delivery of an
\* unrecorded id is dispatched to its handler.
C8_RecordedAfterSuccess ==
    [][/\ webhookEvents' # webhookEvents
            => \E p \in Procs :
                  /\ proc[p].pc = "wh_mark"
                  /\ webhookEvents' = webhookEvents \cup {proc[p].event}
                  /\ proc'[p].pc = "done"
                  /\ proc'[p].status = 200
       /\ \A p \in Procs :
            (/\ proc[p].op = "webhook"
             /\ proc[p].pc # "done"
             /\ proc'[p].pc = "done"
             /\ proc'[p].status >= 500)
                => webhookEvents' = webhookEvents
       /\ \A p \in Procs :
            (/\ proc[p].pc = "idle"
             /\ proc'[p].op = "webhook"
             /\ proc'[p].event \notin webhookEvents)
                => proc'[p].pc = Dispatch(proc'[p].event)]_vars

\* C8 happens: a delivery whose handler threw after the PMS was written is
\* answered 500 and its event id is not recorded.
C8_Witness ==
    \E p \in Procs :
        /\ proc[p].pc = "done"
        /\ proc[p].op = "webhook"
        /\ proc[p].status = 500
        /\ proc[p].outcome = "pms_error"
        /\ pmsCalls.updateReservation = 1
        /\ proc[p].event \notin webhookEvents

\* C9: a transition to CANCELED requested on a BOOKED checkout (by
\* cancelCheckout or by transitionState) succeeds: the state becomes CANCELED
\* and one BOOKED->CANCELED entry is appended to stateHistory.
C9_CancelAfterBooking ==
    \A p \in Procs :
        (/\ proc[p].pc = "done"
         /\ proc[p].target = "CANCELED"
         /\ proc[p].read = "BOOKED")
            => /\ proc[p].outcome = "ok"
               /\ checkout.state = "CANCELED"
               /\ checkout.stateHistory[Len(checkout.stateHistory)].from = "BOOKED"

\* The sinks of the graph.
Sinks == {"CANCELED", "EXPIRED", "FAILED"}

\* C10: once the checkout's state is CANCELED, EXPIRED or FAILED, no step of
\* any operation changes its state or appends to its stateHistory.
C10_SinksStay ==
    [][(checkout.exists /\ checkout.state \in Sinks)
          => /\ checkout'.exists
             /\ checkout'.state = checkout.state
             /\ checkout'.stateHistory = checkout.stateHistory]_vars

\* C10 happens: a transition out of a sink was requested and refused.
C10_Witness ==
    \E p \in Procs :
        /\ proc[p].pc = "done"
        /\ proc[p].read \in Sinks
        /\ proc[p].target \in CheckoutState \ {proc[p].read}
        /\ proc[p].outcome = "invalid"
        /\ checkout.state = proc[p].read

\* C11: handlePaymentSucceeded entered on a checkout that is already BOOKED
\* is a no-op that raises no error: the delivery is answered 200 processed,
\* and the document stays BOOKED.
C11_BookedIsNoOp ==
    \A p \in Procs :
        (/\ proc[p].pc = "done"
         /\ proc[p].op = "webhook"
         /\ proc[p].event = "evt_succeeded"
         /\ proc[p].read = "BOOKED")
            => /\ proc[p].status = 200
               /\ proc[p].outcome = "processed"
               /\ checkout.state = "BOOKED"

\* C12: a PMS step of handlePaymentSucceeded that fails leaves the checkout
\* as it is, in PAID (or BOOKED by a concurrent delivery), and no step of a
\* webhook delivery moves it to FAILED; handlePaymentSucceeded entered again
\* on the PAID checkout with the PMS answering takes it to BOOKED.
C12_PmsFailureLeavesPaid ==
    /\ []((/\ checkout.exists
           /\ checkout.state = "PAID"
           /\ checkout.staysReservationId # Unset)
              => /\ handlePaymentSucceeded(checkout).returned
                 /\ handlePaymentSucceeded(checkout).doc.state = "BOOKED")
    /\ [][\A p \in Procs :
             (proc'[p] # proc[p] /\ proc'[p].op = "webhook")
                => /\ checkout'.state = "FAILED" => checkout.state = "FAILED"
                   /\ proc'[p].outcome = "pms_error"
                         => /\ checkout' = checkout
                            /\ proc[p].snap.state = "PAID"
                            /\ checkout'.state \in {"PAID", "BOOKED"}]_vars

\* C12 happens: one delivery failed after updateReservation, and the next
\* delivery, entering on the PAID checkout, booked it.
C12_Witness ==
    \E p \in Procs :
        /\ proc[p].pc = "done"
        /\ proc[p].op = "webhook"
        /\ proc[p].outcome = "processed"
        /\ proc[p].read = "PAID"
        /\ checkout.state = "BOOKED"
        /\ pmsCalls.updateReservation = 2
        /\ pmsCalls.registerPayment = 1
        /\ \A q \in Procs \ {p} : proc[q].pc = "idle"

\* C13: the amount createPaymentIntent passes to the PSP equals the
\* checkout's quote.total exactly (no scaling, no rounding).
C13_AmountIsQuoteTotal ==
    \A p \in Procs :
        (proc[p].op = "payment-intent" /\ proc[p].amount # 0)
            => proc[p].amount * 1000 = proc[p].snap.quote.total

\* C14: whenever the checkout moves into EXPIRED (from HOLD_CREATED or from
\* PAYMENT_CREATED), cancelReservation was issued before against its
\* reservation: the checkout has a reservation id and the PMS holds that
\* reservation as canceled.
C14_CancelBeforeExpired ==
    [][(/\ checkout.exists
        /\ checkout.state # "EXPIRED"
        /\ checkout'.state = "EXPIRED")
          => /\ checkout.state \in {"HOLD_CREATED", "PAYMENT_CREATED"}
             /\ checkout.staysReservationId \in DOMAIN pmsReservations
             /\ pmsReservations[checkout.staysReservationId] = "canceled"]_vars

\* C14 happens: the sweeper expired a checkout in PAYMENT_CREATED whose
\* reservation it had canceled.
C14_Witness ==
    /\ checkout.exists
    /\ checkout.state = "EXPIRED"
    /\ checkout.stateHistory[Len(checkout.stateHistory)] =
           StateTransition("PAYMENT_CREATED", "EXPIRED", "system")
    /\ pmsReservations[checkout.staysReservationId] = "canceled"

\* Checkout c of the collection is in an expirable state (its hold expiry
\* has passed).
HeldPastExpiry(c) ==
    /\ c \in DOMAIN checkouts
    /\ checkouts[c].state \in {"HOLD_CREATED", "PAYMENT_CREATED"}

\* C15: with the sweeper triggered again and again and cancelReservation
\* succeeding eventually, every checkout in HOLD_CREATED or PAYMENT_CREATED
\* past its hold expiry eventually leaves that state, also when more of them
\* exist than one query returns.
C15_ExpiredHoldsLeave ==
    \A c \in HoldIds : HeldPastExpiry(c) ~> ~HeldPastExpiry(c)

\* C15 happens: three checkouts expired from HOLD_CREATED, more than one
\* query of the job returns.
C15_Witness ==
    /\ DOMAIN checkouts = HoldIds
    /\ Len(Holds) > BatchLimit
    /\ \A c \in HoldIds :
          /\ checkouts[c].state = "EXPIRED"
          /\ checkouts[c].stateHistory[Len(checkouts[c].stateHistory)].from
                 = "HOLD_CREATED"

\* C16: a retry of POST /hold with the same Idempotency-Key after a PMS
\* failure runs createHold again: it is never answered from the idempotency
\* record with the earlier PMS failure.
C16_RetryAfterPmsErrorRuns ==
    \A p \in Procs :
        (proc[p].pc = "done" /\ proc[p].op = "hold" /\ proc[p].cached)
            => ~(proc[p].body.kind = "error" /\ proc[p].body.error = "pms_error")

\* C17: a request whose idempotency record exists and has not expired is
\* answered with the recorded status and body and the handler does not run
\* (nothing is written, no PMS or PSP call is made); a request that finds an
\* expired record deletes it and the handler runs.
C17_RecordedResponseReplayed ==
    [][\A p \in Procs :
          /\ (/\ proc[p].pc = "idle"
              /\ proc'[p].op \in Endpoints
              /\ proc'[p].key # NoKey)
                => LET record == idempotencyKeys[<<proc'[p].op, proc'[p].key>>] IN
                    /\ (record.exists /\ ~record.expired)
                          => /\ proc'[p].pc = "done"
                             /\ proc'[p].cached
                             /\ proc'[p].status = record.responseStatus
                             /\ proc'[p].body = record.responseBody
                             /\ UNCHANGED <<store, pms, pspIntents>>
                    /\ (record.exists /\ record.expired)
                          => proc'[p].pc = "idem_delete"
                    /\ ~record.exists => proc'[p].pc = FirstPc(proc'[p].op)
          /\ (proc[p].pc = "done" /\ proc[p].cached)
                => (proc'[p] = proc[p] \/ (proc'[p] = Idle /\ UNCHANGED <<store, pms, pspIntents>>))
          /\ (proc[p].pc = "idem_delete" /\ proc'[p] # proc[p])
                => /\ proc'[p].pc = FirstPc(proc[p].op)
                   /\ ~idempotencyKeys'[<<proc[p].op, proc[p].key>>].exists]_vars

\* C17 happens: the record of the hold was stored, expired and was deleted
\* by the next request with the key, whose handler ran and found the hold.
C17_Witness ==
    \E p \in Procs :
        /\ proc[p].pc = "done"
        /\ proc[p].op = "hold"
        /\ ~proc[p].cached
        /\ proc[p].outcome = "existing"
        /\ ~idempotencyKeys[<<"hold", proc[p].key>>].exists
        /\ requests = 2
        /\ \A q \in Procs \ {p} : proc[q].pc = "idle"

\* C18: cancelCheckout whose PMS cancelReservation fails with NOT_FOUND still
\* moves the checkout to CANCELED, with actor user.
C18_CancelToleratesNotFound ==
    \A p \in Procs :
        (/\ proc[p].pc = "done"
         /\ proc[p].op = "cancel"
         /\ proc[p].outcome = "pms_not_found")
            => /\ proc[p].status = 200
               /\ checkout.state = "CANCELED"
               /\ checkout.stateHistory[Len(checkout.stateHistory)].actor = "user"

\* C19: createPaymentIntent on a checkout that cancelCheckout moved from
\* HOLD_CREATED to CANCELED is rejected with INVALID_TRANSITION, and the
\* checkout stays CANCELED with no PaymentIntent id.
C19_PaymentIntentAfterCancelRejected ==
    \A p \in Procs :
        (/\ proc[p].pc = "done"
         /\ proc[p].op = "payment-intent"
         /\ ~proc[p].cached
         /\ proc[p].outcome = "invalid_state"
         /\ proc[p].read = "CANCELED"
         /\ checkout.stateHistory[Len(checkout.stateHistory)].from = "HOLD_CREATED"
         /\ checkout.staysReservationId # Unset
         /\ pmsReservations[checkout.staysReservationId] = "canceled")
            => /\ proc[p].body.code = "INVALID_TRANSITION"
               /\ checkout.state = "CANCELED"
               /\ checkout.stripePaymentIntentId = Unset

\* C20: in PAID, BOOKED, CANCELED, EXPIRED or FAILED updateGuestInfo is
\* rejected and the stored guest is unchanged.
C20_GuestFrozenOutsideEditableStates ==
    [][(/\ checkout.exists
        /\ checkout.state \in {"PAID", "BOOKED", "CANCELED", "EXPIRED", "FAILED"})
            => checkout'.guest = checkout.guest]_vars

\* C21: createHold on an INITIATED checkout without guest fails with the
\* guest-required error, and createHold on a checkout without reservation id
\* in a state other than INITIATED and HOLD_CREATED fails with a
\* StateMachineError; neither makes a PMS call nor changes the checkout.
C21_HoldRefusedWithoutEffect ==
    /\ [](\A p \in Procs :
            (/\ proc[p].pc = "done"
             /\ proc[p].op = "hold"
             /\ proc[p].outcome \in {"guest_required", "cannot_create_hold"})
                => proc[p].ext = Unset)
    /\ [][\A p \in Procs :
          (/\ proc[p].pc = "hold_read"
           /\ proc'[p] # proc[p]
           /\ checkout.exists
           /\ checkout.staysReservationId = Unset)
             => /\ (checkout.state = "INITIATED" /\ checkout.guest = NoGuest)
                      => /\ proc'[p].pc = "done"
                         /\ proc'[p].outcome = "guest_required"
                         /\ ~IsStateMachineError(proc'[p])
                         /\ UNCHANGED <<checkout, pms>>
                /\ checkout.state \notin {"INITIATED", "HOLD_CREATED"}
                      => /\ proc'[p].pc = "done"
                         /\ proc'[p].outcome = "cannot_create_hold"
                         /\ IsStateMachineError(proc'[p])
                         /\ UNCHANGED <<checkout, pms>>]_vars

\* C21 happens: a hold request on a canceled checkout that never had a
\* reservation was refused.
C21_Witness ==
    /\ checkout.exists
    /\ checkout.state = "CANCELED"
    /\ checkout.staysReservationId = Unset
    /\ \E p \in Procs :
          /\ proc[p].pc = "done"
          /\ proc[p].op = "hold"
          /\ ~proc[p].cached
          /\ proc[p].outcome = "cannot_create_hold"

\* C22: transitionState with the state the checkout is in returns the checkout
\* and leaves the stored document as it was: no history entry, updatedAt not
\* modified, the updates not written.
C22_SameStateWritesNothing ==
    (/\ machine.call.fn = "transitionState"
     /\ machine.call.before.exists
     /\ machine.call.targetState = machine.call.before.state)
        => /\ machine.doc = machine.call.before
           /\ machine.result = [kind |-> "returned", value |-> machine.call.before]

\* C22 happens: transitionState was called with updates for the state of a
\* checkout last written at an earlier time.
C22_Witness ==
    /\ machine.call.fn = "transitionState"
    /\ machine.call.before.exists
    /\ machine.call.targetState = machine.call.before.state
    /\ machine.call.before.state = "PAYMENT_CREATED"
    /\ machine.call.updates = [stripePaymentIntentId |-> 1]
    /\ machine.call.before.stripePaymentIntentId = Unset
    /\ machine.call.before.updatedAt < machine.now

\* C23: transitionState with a target that is not the current state and not
\* among its allowed successors fails with a StateMachineError and leaves the
\* stored document unchanged; tryTransitionState returns null in exactly that
\* case.
C23_NullExactlyWhenNotAllowed ==
    /\ (/\ machine.call.fn = "transitionState"
        /\ machine.call.before.exists
        /\ machine.call.targetState # machine.call.before.state
        /\ machine.call.targetState
              \notin VALID_TRANSITIONS[machine.call.before.state])
          => /\ machine.result = [kind |-> "thrown", value |-> "invalid"]
             /\ machine.doc = machine.call.before
    /\ (/\ machine.call.fn = "tryTransitionState"
        /\ machine.call.before.exists
        /\ machine.call.targetState # machine.call.before.state)
          => /\ machine.doc.state = machine.call.before.state
                   => machine.doc = machine.call.before
             /\ (machine.result = [kind |-> "returned", value |-> Null])
                   <=> machine.call.targetState
                          \notin VALID_TRANSITIONS[machine.call.before.state]

\* C24: in every reachable state, adjacent stateHistory entries chain
\* (history[i].to = history[i+1].from), and the seed entry written by
\* initializeCheckout (INITIATED -> INITIATED, the first) is the only self-loop.
C24_HistoryChains ==
    checkout.exists =>
        LET history == checkout.stateHistory IN
            /\ history[1] = StateTransition("INITIATED", "INITIATED", "user")
            /\ \A i \in 1..(Len(history) - 1) :
                  /\ history[i].to = history[i + 1].from
                  /\ history[i + 1].from # history[i + 1].to

\* C24 happens: a checkout taken to BOOKED by createHold, createPaymentIntent
\* and the webhook has a history of five entries.
C24_Witness ==
    /\ checkout.exists
    /\ checkout.state = "BOOKED"
    /\ Len(checkout.stateHistory) = 5
    /\ checkout.stateHistory[2].actor = "system"
    /\ checkout.stateHistory[4].actor = "webhook"

\* C25: in every reachable state the checkout's state is the `to` of its last
\* history entry; every write that changes the state appends exactly one
\* entry (from the old state to the new one) in that same write, and no write
\* shortens or rewrites the history.
C25_StateIsLastHistoryEntry ==
    /\ [](checkout.exists =>
            checkout.state = checkout.stateHistory[Len(checkout.stateHistory)].to)
    /\ [][checkout.exists =>
            /\ checkout'.exists
            /\ IF checkout'.state # checkout.state
                  THEN /\ Len(checkout'.stateHistory) = Len(checkout.stateHistory) + 1
                       /\ SubSeq(checkout'.stateHistory, 1, Len(checkout.stateHistory))
                             = checkout.stateHistory
                       /\ LET last == checkout'.stateHistory[Len(checkout'.stateHistory)]
                          IN  last.from = checkout.state /\ last.to = checkout'.state
                  ELSE checkout'.stateHistory = checkout.stateHistory]_vars

\* C25 happens: the sweeper's write moved a checkout with a PaymentIntent to
\* EXPIRED and its last history entry says so.
C25_Witness ==
    /\ checkout.exists
    /\ checkout.state = "EXPIRED"
    /\ Len(checkout.stateHistory) = 4
    /\ checkout.stateHistory[4] = StateTransition("PAYMENT_CREATED", "EXPIRED", "system")

\* C26: once initializeCheckout has written the checkout, no step of any
\* operation changes its quote (total, currency, breakdown, hash, expiresAt).
C26_QuoteNeverChanges ==
    [][checkout.exists =>
          /\ checkout'.exists
          /\ checkout'.quote = checkout.quote]_vars

\* C26 happens: guest update, hold, and cancellation have written the
\* checkout, and it still carries the quote it was initialized with.
C26_Witness ==
    /\ checkout.exists
    /\ checkout.state = "CANCELED"
    /\ checkout.guest # NoGuest
    /\ checkout.staysReservationId # Unset
    /\ \E total \in QuoteTotals : checkout.quote = createLockedQuote(total)

\* C27: once the checkout's stripePaymentIntentId is set, no step changes it,
\* whatever createPaymentIntent calls and other operations interleave.
C27_PaymentIntentIdNeverChanges ==
    [][(checkout.exists /\ checkout.stripePaymentIntentId # Unset) =>
          /\ checkout'.exists
          /\ checkout'.stripePaymentIntentId = checkout.stripePaymentIntentId]_vars

\* C27 happens: two createPaymentIntent calls both read the checkout without
\* an id and each created a PaymentIntent; the one that came second at
\* transitionState has answered, and the checkout holds the other's id.
C27_Witness ==
    /\ checkout.exists
    /\ checkout.stripePaymentIntentId # Unset
    /\ pspIntents = 2
    /\ \E p \in Procs :
          /\ proc[p].pc = "done"
          /\ proc[p].op = "payment-intent"
          /\ proc[p].outcome = "created"
          /\ proc[p].ext # checkout.stripePaymentIntentId

\* C28: in every reachable state a checkout with staysReservationId set is
\* not INITIATED, and the id came with createHold's write to HOLD_CREATED
\* (the history entry INITIATED -> HOLD_CREATED by system).
C28_NoReservationWhileInitiated ==
    (checkout.exists /\ checkout.staysReservationId # Unset) =>
        /\ checkout.state # "INITIATED"
        /\ checkout.holdExpiresAt # Unset
        /\ Len(checkout.stateHistory) >= 2
        /\ checkout.stateHistory[2] = StateTransition("INITIATED", "HOLD_CREATED", "system")

\* C28 happens: createHold has written the reservation id with HOLD_CREATED
\* while a second createHold for the same checkout is still running.
C28_Witness ==
    /\ checkout.exists
    /\ checkout.state = "HOLD_CREATED"
    /\ checkout.staysReservationId # Unset
    /\ \E p \in Procs : proc[p].pc = "hold_commit"

\* C29: no step of the handling of a payment_intent.payment_failed event
\* changes the checkout: state, stateHistory and every other field stay as
\* they were (it is not moved to FAILED).
C29_PaymentFailedChangesNothing ==
    [][\A p \in Procs :
          (/\ proc'[p] # proc[p]
           /\ \/ proc[p].op = "webhook" /\ proc[p].event = "evt_failed"
              \/ proc'[p].op = "webhook" /\ proc'[p].event = "evt_failed")
             => checkout' = checkout]_vars

\* C29 happens: the failed event of a checkout with a PaymentIntent, past its
\* hold expiry, has been handled and recorded, and the checkout is still in
\* PAYMENT_CREATED, where the sweep finds it.
C29_Witness ==
    /\ checkout.exists
    /\ checkout.state = "PAYMENT_CREATED"
    /\ pastHoldExpiry
    /\ "evt_failed" \in webhookEvents
    /\ \E p \in Procs :
          /\ proc[p].pc = "done"
          /\ proc[p].event = "evt_failed"
          /\ proc[p].outcome = "processed"

\* C30 as stated: a finalize response with success = true is given only for
\* a BOOKED checkout; a wait that ends on a checkout that is not BOOKED (a
\* PAID one with the booking pending included) answers success = false.
C30_SuccessOnlyWhenBooked ==
    \A p \in Procs :
        (/\ proc[p].pc = "done"
         /\ proc[p].op = "finalize"
         /\ proc[p].status = 200)
            => (proc[p].body.success <=> proc[p].read = "BOOKED")

\* C30 as amended: a wait that ends on a checkout that is neither BOOKED nor
\* PAID answers success = false; on a PAID checkout it answers success = true
\* with pending = true; success = true without pending, and a booking code,
\* are given only for a BOOKED checkout.
C30_SuccessWhenBookedOrPaidPending ==
    \A p \in Procs :
        (/\ proc[p].pc = "done"
         /\ proc[p].op = "finalize"
         /\ proc[p].status = 200)
            => /\ proc[p].read = checkout.state
               /\ proc[p].body.success <=> proc[p].read \in {"BOOKED", "PAID"}
               /\ proc[p].body.pending <=> proc[p].read = "PAID"
               /\ proc[p].body.bookingCode # Unset => proc[p].read = "BOOKED"

\* C30 happens: the wait timed out on a checkout that is PAID, its booking
\* in the PMS still pending, and the response says success with pending.
C30_Witness ==
    /\ checkout.exists
    /\ checkout.state = "PAID"
    /\ \E p \in Procs :
          /\ proc[p].pc = "done"
          /\ proc[p].op = "finalize"
          /\ proc[p].outcome = "timeout"
          /\ proc[p].body.success
          /\ proc[p].body.pending

\* C31: every call of waitForConfirmation on an existing checkout returns; it
\* returns the checkout a poll found in BOOKED, FAILED or EXPIRED, and
\* otherwise the current checkout once maxWaitMs has elapsed, whatever the
\* other handlers do meanwhile.
C31_WaitReturns ==
    /\ [](call.fn = "waitForConfirmation" /\ call.pc = "returned"
            => \/ call.result.state \in {"BOOKED", "FAILED", "EXPIRED"}
               \/ call.elapsed >= call.maxWait)
    /\ [](call.fn = "waitForConfirmation" /\ call.pc = "sleep"
            => checkout.exists)
    /\ (call.fn = "waitForConfirmation" /\ checkout.exists)
          ~> (call.fn = "waitForConfirmation" /\ call.pc = "returned")

\* C31 happens: a wait of two seconds or more, the deadline passed with the
\* checkout in PAID, and the call returned it.
C31_Witness ==
    /\ call.fn = "waitForConfirmation"
    /\ call.pc = "returned"
    /\ call.maxWait >= 2
    /\ call.elapsed >= call.maxWait
    /\ call.result.exists
    /\ call.result.state = "PAID"

\* The state changes of a stateHistory, without their actors.
FromTo(history) == [i \in DOMAIN history |-> <<history[i].from, history[i].to>>]

\* C32: one client, nothing failing.  Once the succeeded delivery has been
\* processed, the checkout is BOOKED with the reservation id, the
\* PaymentIntent id and the booking code set, and its stateHistory is the
\* seed, INITIATED->HOLD_CREATED, HOLD_CREATED->PAYMENT_CREATED,
\* PAYMENT_CREATED->PAID, PAID->BOOKED; a finalize answered after that says
\* success = true, not pending, with that booking code.
C32_HappyPathBooks ==
    "evt_succeeded" \in webhookEvents =>
        /\ checkout.exists
        /\ checkout.state = "BOOKED"
        /\ checkout.staysReservationId # Unset
        /\ checkout.stripePaymentIntentId # Unset
        /\ checkout.staysBookingCode # Unset
        /\ FromTo(checkout.stateHistory) =
               << <<"INITIATED", "INITIATED">>,
                  <<"INITIATED", "HOLD_CREATED">>,
                  <<"HOLD_CREATED", "PAYMENT_CREATED">>,
                  <<"PAYMENT_CREATED", "PAID">>,
                  <<"PAID", "BOOKED">> >>
        /\ \A p \in Procs :
              (proc[p].pc = "done" /\ proc[p].op = "finalize")
                  => /\ proc[p].status = 200
                     /\ proc[p].body.success
                     /\ ~proc[p].body.pending
                     /\ proc[p].body.bookingCode = checkout.staysBookingCode

\* C32 happens: after hold, PaymentIntent and the processed succeeded
\* delivery, finalize has answered for the BOOKED checkout.
C32_Witness ==
    /\ "evt_succeeded" \in webhookEvents
    /\ checkout.exists
    /\ checkout.state = "BOOKED"
    /\ checkout.guest # NoGuest
    /\ \E p \in Procs :
          /\ proc[p].pc = "done"
          /\ proc[p].op = "finalize"
          /\ proc[p].outcome = "confirmed"
          /\ proc[p].body.success

\* C33: a call of createReservation, updateReservation, cancelReservation or
\* registerPayment never waits for a retry and makes one HTTP attempt; after
\* a 5xx response, a network error or a timeout (or a 4xx) the call has
\* thrown, the error in the caller's hands.
C33_WritesNeverRetried ==
    (call.fn = "request" /\ call.method \in TransactionalWrites) =>
        /\ Len(call.responses) <= 1
        /\ call.delays = <<>>
        /\ call.pc # "sleep"
        /\ call.pc \in {"returned", "thrown"} => Len(call.responses) = 1
        /\ (call.responses # <<>> /\ call.responses[1] # "ok")
               => call.pc = "thrown" /\ call.thrown # "none"

\* C33 happens: cancelReservation got a 5xx response and has thrown.
C33_Witness ==
    /\ call.fn = "request"
    /\ call.method = "cancelReservation"
    /\ call.responses = <<"5xx">>
    /\ call.pc = "thrown"

\* C34: a read call that has thrown after 5xx responses only made three
\* attempts, and waited 1 s and then 2 s between them.
C34_ReadsRetriedTwice ==
    (/\ call.fn = "request"
     /\ call.method \in {"getListingDetail", "calculatePrice",
                         "getListingCalendar", "getReservation"}
     /\ call.pc = "thrown"
     /\ \A i \in DOMAIN call.responses : call.responses[i] = "5xx")
        => /\ Len(call.responses) = 3
           /\ call.delays = <<1000, 2000>>

\* C35: when cancelReservation fails for a checkout during a sweep, the job
\* counts the error and goes on without the transition: the checkout's
\* state, stateHistory and holdExpiresAt stay as they were (it still matches
\* the query that returned it), and nothing is recorded as canceled.
C35_FailedCancelLeavesCheckout ==
    [][(sweep.pc = "cancel" /\ sweep'.errorCount = sweep.errorCount + 1)
          => LET c == Head(sweep.batch) IN
              /\ sweep'.pc # "transition"
              /\ checkouts'[c].state = checkouts[c].state
              /\ checkouts'[c].stateHistory = checkouts[c].stateHistory
              /\ checkouts'[c].holdExpiresAt = checkouts[c].holdExpiresAt
              /\ canceled' = canceled]_vars

\* C35 happens: a sweep has ended in which cancelReservation failed for both
\* checkouts the query returned; they are in HOLD_CREATED as before, for
\* the next sweep to select.
C35_Witness ==
    /\ sweep.pc = "return"
    /\ sweep.found = 2
    /\ sweep.errorCount = 2
    /\ canceled = {}
    /\ \A c \in HoldIds :
          /\ checkouts[c].state = "HOLD_CREATED"
          /\ Len(checkouts[c].stateHistory) = 2
          /\ checkouts[c].holdExpiresAt # Unset

\* C36: every document the queries returned is attempted: while the job
\* works through a snapshot, the documents counted in expiredCount or
\* errorCount and those still to come add up to the documents found; the
\* job returns after the query for the last expirable state, with
\* expiredCount + errorCount equal to the documents found.
C36_EveryCheckoutAttempted ==
    /\ sweep.pc \in {"cancel", "transition"}
          => sweep.expiredCount + sweep.errorCount + Len(sweep.batch) = sweep.found
    /\ sweep.pc = "return"
          => /\ sweep.expiredCount + sweep.errorCount = sweep.found
             /\ sweep.idx = Len(EXPIRABLE_STATES)

\* C36 happens: a sweep returns after a failure and a later success, every
\* document found counted.
C36_Witness ==
    /\ sweep.pc = "return"
    /\ sweep.found >= 3
    /\ sweep.errorCount >= 1
    /\ sweep.expiredCount >= 1
    /\ checkouts["c1"].state = "HOLD_CREATED"
    /\ checkouts["c2"].state = "EXPIRED"

\* C37: the initialize validation succeeds exactly when checkIn is a date on
\* or after the day of the server's calendar, checkOut is a date after
\* checkIn and adults >= 1, at every time of day and UTC offset; a checkIn of
\* the day before is refused with the 'today or later' message.
C37_AcceptsExactlyFromToday ==
    (call.fn = "initializeCheckoutSchema" /\ call.pc = "done") =>
        LET today == LocalDay(call.now, call.offset) IN
        /\ call.issues = <<>>
              <=> /\ call.checkIn.kind = "date"
                  /\ call.checkIn.day >= today
                  /\ call.checkOut.kind = "date"
                  /\ call.checkOut.day > call.checkIn.day
                  /\ call.adults >= 1
        /\ (call.checkIn.kind = "date" /\ call.checkIn.day = today - 1)
              => call.issues # <<>> /\ call.issues[1] = "A data deve ser hoje ou no futuro"

\* C38: whatever createPaymentIntent calls are made for the checkout, one
\* after the other or overlapping, with or without the same Idempotency-Key,
\* at most one PaymentIntent is ever created at the PSP.
C38_AtMostOnePaymentIntent == pspIntents <= 1

\* C39: the sweeper cancels the PMS reservation only of a checkout it then
\* moves to EXPIRED: while a run of expireHolds stands after its
\* cancelReservation with the reservation canceled, the checkout is not in
\* PAID or BOOKED.
C39_SweeperCancelsOnlyWhatItExpires ==
    \A p \in Procs :
        (/\ proc[p].op = "expire-holds"
         /\ proc[p].pc = "sweep_transition"
         /\ proc[p].snap.exists
         /\ proc[p].snap.staysReservationId \in DOMAIN pmsReservations
         /\ pmsReservations[proc[p].snap.staysReservationId] = "canceled")
            => checkout.state \notin {"PAID", "BOOKED"}

\* C40: a cancelCheckout call whose transition to CANCELED was rejected has
\* issued no PMS cancelReservation (the checkout it read had no reservation
\* it canceled), and a checkout it found in PAID or BOOKED keeps a
\* reservation that is not canceled.
C40_CancelsPmsOnlyWhenCanceled ==
    \A p \in Procs :
        (/\ proc[p].pc = "done"
         /\ proc[p].op = "cancel"
         /\ proc[p].target = "CANCELED"
         /\ proc[p].status = 500)
            => /\ proc[p].snap.staysReservationId = Unset
               /\ (checkout.state \in {"PAID", "BOOKED"}
                   /\ checkout.staysReservationId \in DOMAIN pmsReservations)
                     => pmsReservations[checkout.staysReservationId] # "canceled"

====
